---- MODULE Spec2Model ----
(***************************************************************************)
(* Model of the portfolio tracker's trading calendar (BusinessDayUtils)    *)
(* and change detector (ChangeDetectionService).                           *)
(*                                                                         *)
(* A date string "YYYY-MM-DD" is the tuple <<y, m, d>>.  A JavaScript Date *)
(* built from such a string is the instant of UTC midnight of that date;   *)
(* it is modelled by its day number, counted from 2023-01-01 (a Sunday).   *)
(* Date.getDay() and Date.setDate() work on the local calendar date of the *)
(* process, Date.toISOString() on the UTC one.  The process time zone is   *)
(* the variable tzWest: TRUE for a fixed offset behind UTC (UTC midnight   *)
(* is the evening of the previous local day), FALSE for UTC or a fixed     *)
(* offset ahead of it.  Daylight-saving transitions are not modelled.      *)
(***************************************************************************)
EXTENDS Integers, Sequences, FiniteSets, TLC

VARIABLES
    tzWest,      \* time zone of the process lies behind UTC
    calDate,     \* BusinessDayUtils: the dateStr argument
    calOp,       \* BusinessDayUtils: the function that was called, or "none"
    calRes,      \* BusinessDayUtils: the value it returned
    cmpToday,    \* compareModelHoldings: todayModel, <<model>>
    cmpPrev,     \* compareModelHoldings: yesterdayModel, <<model>> or <<>> (undefined)
    cmpPc,       \* "start" before, "done" after the model was compared
    cmpRes,      \* the PortfolioChange compareModelHoldings returned, <<change>>
    cmpChanges,  \* the changes list of detectChanges after the model was handled
    pc,          \* detectChanges: "start", "fetching", "done" (returned), "failed" (threw)
    today,       \* detectChanges: the date it was called with
    prevDay,     \* detectChanges: previousTradingDay, <<date>> once computed
    fetchCalls,  \* the dates getAccountPortfolios was called with, in call order
    fetchToday,  \* today's fetch: [status: "none" | "pending" | "ok" | "failed", data]
    fetchPrev,   \* the comparison day's fetch, likewise
    joinError,   \* the rejection of Promise.all: <<error>> once a fetch has failed
    alert,       \* the ChangeAlert detectChanges returned, <<alert>>
    thrown,      \* the error detectChanges threw, <<error>>
    fnOp,        \* a pure helper: the function that was called, or "none"
    fnArgs,      \* a pure helper: the arguments it is called with
    fnRes,       \* a pure helper: the value it returned
    reqPc,       \* getCombinedAccountPortfolios, per request: where it stands
    reqFetched,  \* per request: what its awaits resolved to so far
    heap,        \* the combinedAccounts array each request created, <<array>>
    cache,       \* the cache entry of the date: <<>> or <<request whose array it holds>>
    reqRet,      \* per request: the array it returned, <<request that created it>>
    wlPc,        \* getModelWatchList: where it stands
    wlModels,    \* the models getAllModelsFromEmail resolved to, <<models>>
    wlHoldings,  \* what getOurCurrentHoldings resolved to: [failed, names]
    wlCache,     \* the cache entry of the watch list, <<result>>
    wlRet,       \* the watch list returned, <<result>>
    clock,       \* CacheService: Date.now(), in units of 30 minutes
    store,       \* CacheService: the Map, key -> <<>> or <<CacheEntry>>
    setLog,      \* per key: the last set not cleared since, <<[data, at, ttl]>>
    imapPc,      \* getPortfolioEmails: where the connection and the promise stand
    msgs,        \* the messages of the search: [portfolio, st] each
    emails,      \* the emails array of getPortfolioEmails
    imapRet,     \* the promise of getPortfolioEmails: [state, value]
    loopCur,     \* the stepping loop: currentDate, <<day number>>
    loopSteps    \* the stepping loop: the iterations done

calVars == <<tzWest, calDate, calOp, calRes>>
cmpVars == <<cmpToday, cmpPrev, cmpPc, cmpRes, cmpChanges>>
detVars == <<pc, today, prevDay, fetchCalls, fetchToday, fetchPrev, joinError, alert, thrown>>
libVars == <<fnOp, fnArgs, fnRes>>
reqVars == <<reqPc, reqFetched, heap, cache, reqRet>>
wlVars == <<wlPc, wlModels, wlHoldings, wlCache, wlRet>>
cacheVars == <<clock, store, setLog>>
imapVars == <<imapPc, msgs, emails, imapRet>>
loopVars == <<loopCur, loopSteps>>
svcVars == <<cacheVars, imapVars, loopVars>>
extVars == <<libVars, reqVars, wlVars, svcVars>>
vars == <<calVars, cmpVars, detVars, extVars>>

Null == "null"

----------------------------------------------------------------------------
(* Bounds *)

\* last day number of the dates handed to the calendar functions (2026-01-09)
MaxDay == 1104

\* a portfolio text handed to compareModelHoldings is made of at most this many pieces
MaxPieces == 3

\* the account portfolios of one day hold at most this many models in all
MaxModels == 2

----------------------------------------------------------------------------
(* Date strings and Date objects *)

IsLeap(y) == (y % 4 = 0 /\ y % 100 # 0) \/ y % 400 = 0

DaysInYear(y) == IF IsLeap(y) THEN 366 ELSE 365

DaysInMonth(y, m) ==
    IF m = 2 THEN (IF IsLeap(y) THEN 29 ELSE 28)
    ELSE IF m \in {4, 6, 9, 11} THEN 30 ELSE 31

RECURSIVE DaysBeforeYear(_)
DaysBeforeYear(y) == IF y <= 2023 THEN 0 ELSE DaysBeforeYear(y - 1) + DaysInYear(y - 1)

RECURSIVE DaysBeforeMonth(_, _)
DaysBeforeMonth(y, m) == IF m <= 1 THEN 0 ELSE DaysBeforeMonth(y, m - 1) + DaysInMonth(y, m - 1)

\* new Date("YYYY-MM-DD"): UTC midnight of that date, as a day number
ParseDate(s) == DaysBeforeYear(s[1]) + DaysBeforeMonth(s[1], s[2]) + (s[3] - 1)

RECURSIVE YearOf(_, _)
YearOf(n, y) == IF n < DaysInYear(y) THEN <<y, n>> ELSE YearOf(n - DaysInYear(y), y + 1)

RECURSIVE MonthOf(_, _, _)
MonthOf(n, y, m) == IF n < DaysInMonth(y, m) THEN <<m, n>> ELSE MonthOf(n - DaysInMonth(y, m), y, m + 1)

\* date.toISOString().split('T')[0]: the UTC calendar date of the instant
ToISODate(n) ==
    LET yr == YearOf(n, 2023)
        mo == MonthOf(yr[2], yr[1], 1)
    IN  <<yr[1], mo[1], mo[2] + 1>>

\* the local calendar date (as a day number) of the instant UTC midnight of day n
LocalDay(n, west) == IF west THEN n - 1 ELSE n

\* date.getDay(): weekday of the local calendar date, 0 = Sunday .. 6 = Saturday
GetDay(n, west) == LocalDay(n, west) % 7

\* date.setDate(date.getDate() + k): k local days later, same local wall-clock time
SetDateDelta(n, k) == n + k

\* weekday of the calendar date a string names, 0 = Sunday .. 6 = Saturday
CalendarWeekday(s) == ParseDate(s) % 7

----------------------------------------------------------------------------
(* BusinessDayUtils *)

MARKET_HOLIDAYS ==
    { <<2024, 1, 1>>, <<2024, 1, 15>>, <<2024, 2, 19>>, <<2024, 3, 29>>,
      <<2024, 5, 27>>, <<2024, 6, 19>>, <<2024, 7, 4>>, <<2024, 9, 2>>,
      <<2024, 11, 28>>, <<2024, 11, 29>>, <<2024, 12, 25>>,
      <<2025, 1, 1>>, <<2025, 1, 20>>, <<2025, 2, 17>>, <<2025, 4, 18>>,
      <<2025, 5, 26>>, <<2025, 6, 19>>, <<2025, 7, 4>>, <<2025, 9, 1>>,
      <<2025, 11, 27>>, <<2025, 11, 28>>, <<2025, 12, 25>> }

isTradingDayLongWeekend(dateStr, west) ==
    LET dayOfWeek == GetDay(ParseDate(dateStr), west)
    IN  IF dayOfWeek = 0 \/ dayOfWeek = 6 \/ dayOfWeek = 1 THEN FALSE
        ELSE IF dateStr \in MARKET_HOLIDAYS THEN FALSE
        ELSE TRUE

isTradingDay(dateStr, west) ==
    LET dayOfWeek == GetDay(ParseDate(dateStr), west)
    IN  IF dayOfWeek = 0 \/ dayOfWeek = 6 THEN FALSE
        ELSE IF dateStr \in MARKET_HOLIDAYS THEN FALSE
        ELSE TRUE

RECURSIVE StepToTradingDay(_, _, _)
StepToTradingDay(currentDate, delta, west) ==
    LET next == SetDateDelta(currentDate, delta)
        currentDateStr == ToISODate(next)
    IN  IF isTradingDay(currentDateStr, west) THEN currentDateStr
        ELSE StepToTradingDay(next, delta, west)

getPreviousTradingDay(dateStr, west) == StepToTradingDay(ParseDate(dateStr), -1, west)

getNextTradingDay(dateStr, west) == StepToTradingDay(ParseDate(dateStr), 1, west)

\* PortfolioService.getPreviousBusinessDay(date) and formatDate of the result:
\* the day before, moved back to Friday when it is a Saturday or a Sunday
getPreviousBusinessDay(date, west) ==
    LET previousDay == SetDateDelta(date, -1)
    IN  IF GetDay(previousDay, west) = 0 THEN SetDateDelta(previousDay, -2)
        ELSE IF GetDay(previousDay, west) = 6 THEN SetDateDelta(previousDay, -1)
        ELSE previousDay

shouldCalculateChanges(todayStr, yesterdayStr, west) ==
    IF ~isTradingDay(todayStr, west) \/ ~isTradingDay(yesterdayStr, west) THEN FALSE
    ELSE yesterdayStr = getPreviousTradingDay(todayStr, west)

calculateDaysDifference(startDate, endDate) ==
    LET diff == ParseDate(endDate) - ParseDate(startDate)
    IN  IF diff < 0 THEN -diff ELSE diff

\* a message text is the tuple of its parts, numbers left unformatted
GapMessage(daysDiff) == <<"Markets closed - ", daysDiff, " day gap since last trading day">>

getNoChangeReasonNoGap(dateStr, west) ==
    IF ~isTradingDay(dateStr, west)
    THEN IF GetDay(ParseDate(dateStr), west) \in {0, 6}
         THEN <<"Markets closed - Weekend">> ELSE <<"Markets closed - Holiday">>
    ELSE <<"First trading day comparison">>

getNoChangeReason(dateStr, west) ==
    IF ~isTradingDay(dateStr, west)
    THEN LET dayOfWeek == GetDay(ParseDate(dateStr), west)
         IN  IF dayOfWeek = 0 \/ dayOfWeek = 6
             THEN <<"Markets closed - Weekend">>
             ELSE <<"Markets closed - Holiday">>
    ELSE LET previousTradingDay == getPreviousTradingDay(dateStr, west)
             daysDiff == calculateDaysDifference(previousTradingDay, dateStr)
         IN  IF daysDiff > 3 THEN GapMessage(daysDiff)
             ELSE <<"First trading day comparison">>

----------------------------------------------------------------------------
(* ChangeDetectionService: portfolio texts *)

\* A text is the sequence of its characters.  The character classes of the
\* regular expressions, over the characters the model uses:
SymChars == {"A", "B", "."}      \* [A-Z\.]
WsChars == {" ", "\n"}           \* \s
DigitChars == {"1", "2"}         \* \d

Range(seq) == { seq[i] : i \in 1..Len(seq) }

RECURSIVE Concat(_)
Concat(seqs) == IF seqs = <<>> THEN <<>> ELSE Head(seqs) \o Concat(Tail(seqs))

\* the index after the longest run of characters of class cls that starts at i
RECURSIVE RunEnd(_, _, _)
RunEnd(text, i, cls) ==
    IF i <= Len(text) /\ text[i] \in cls THEN RunEnd(text, i + 1, cls) ELSE i

CharAt(text, i, c) == i <= Len(text) /\ text[i] = c

\* /([A-Z\.]+)\s*\((\d+%)\)/ tried at index i: the index after the match, 0 if
\* there is none (every quantifier is greedy and no shorter run can match)
HoldingMatchEnd(text, i) ==
    LET j == RunEnd(text, i, SymChars)
        k == RunEnd(text, j, WsChars)
        l == RunEnd(text, k + 1, DigitChars)
    IN  IF /\ j > i
           /\ CharAt(text, k, "(")
           /\ l > k + 1
           /\ CharAt(text, l, "%")
           /\ CharAt(text, l + 1, ")")
        THEN l + 2 ELSE 0

\* text.match(/.../g) from index i on: the non-overlapping matches, left to right
RECURSIVE MatchAllFrom(_, _)
MatchAllFrom(text, i) ==
    IF i > Len(text) THEN <<>>
    ELSE LET e == HoldingMatchEnd(text, i)
         IN  IF e > 0 THEN <<SubSeq(text, i, e - 1)>> \o MatchAllFrom(text, e)
             ELSE MatchAllFrom(text, i + 1)

\* String.prototype.trim
RECURSIVE TrimLeft(_)
TrimLeft(str) == IF str # <<>> /\ Head(str) \in WsChars THEN TrimLeft(Tail(str)) ELSE str

RECURSIVE TrimRight(_)
TrimRight(str) ==
    IF str # <<>> /\ str[Len(str)] \in WsChars THEN TrimRight(SubSeq(str, 1, Len(str) - 1)) ELSE str

Trim(str) == TrimRight(TrimLeft(str))

\* match.match(/([A-Z\.]+)/): the first run of symbol characters, <<run>> or <<>>
RECURSIVE FirstSymbolRun(_, _)
FirstSymbolRun(str, i) ==
    IF i > Len(str) THEN <<>>
    ELSE IF str[i] \in SymChars THEN <<SubSeq(str, i, RunEnd(str, i, SymChars) - 1)>>
    ELSE FirstSymbolRun(str, i + 1)

StartsWith(str, prefix) ==
    Len(prefix) <= Len(str) /\ SubSeq(str, 1, Len(prefix)) = prefix

Includes(seq, x) == \E i \in 1..Len(seq) : seq[i] = x

\* holdings.find(h => h.startsWith(symbol)): <<first such holding>> or <<>> (undefined)
RECURSIVE FindStartsWith(_, _)
FindStartsWith(holdings, symbol) ==
    IF holdings = <<>> THEN <<>>
    ELSE IF StartsWith(Head(holdings), symbol) THEN <<Head(holdings)>>
    ELSE FindStartsWith(Tail(holdings), symbol)

\* [...new Set(array)]: the first occurrence of every element, in order
RECURSIVE Dedupe(_)
Dedupe(seq) ==
    IF seq = <<>> THEN <<>>
    ELSE LET front == Dedupe(SubSeq(seq, 1, Len(seq) - 1))
             last == seq[Len(seq)]
         IN  IF Includes(front, last) THEN front ELSE Append(front, last)

extractHoldingsFromPortfolio(portfolioText) ==
    IF portfolioText = <<>> THEN <<>>
    ELSE LET holdingMatches == MatchAllFrom(portfolioText, 1)
         IN  [i \in 1..Len(holdingMatches) |-> Trim(holdingMatches[i])]

extractSecuritySymbols(portfolioText) ==
    IF portfolioText = <<>> THEN <<>>
    ELSE LET holdingMatches == MatchAllFrom(portfolioText, 1)
         IN  Concat([i \in 1..Len(holdingMatches) |-> FirstSymbolRun(holdingMatches[i], 1)])

\* the loop of compareModelHoldings over the symbols `from` that are not in
\* `other`, pushing the first holding of `holdings` that starts with the symbol;
\* guardDup is the "&& !addedHoldings.includes(...)" of the additions loop
RECURSIVE CollectChanged(_, _, _, _, _)
CollectChanged(from, other, holdings, guardDup, acc) ==
    IF from = <<>> THEN acc
    ELSE LET symbol == Head(from)
             found == FindStartsWith(holdings, symbol)
             push == /\ ~Includes(other, symbol)
                     /\ found # <<>>
                     /\ ~(guardDup /\ Includes(acc, found[1]))
         IN  CollectChanged(Tail(from), other, holdings, guardDup,
                            IF push THEN Append(acc, found[1]) ELSE acc)

\* a ModelData is [name, portfolio]: portfolio is performance.portfolio, the only
\* performance field the change detector reads; an optional model is <<m>> or <<>>
PortfolioOf(optModel) == IF optModel = <<>> THEN <<>> ELSE optModel[1].portfolio

\* lines 145-181 of compareModelHoldings, once the symbols and holdings are extracted
CompareExtracted(todaySymbols, yesterdaySymbols, todayHoldings, yesterdayHoldings, modelName, accountName, date) ==
    [ modelName |-> modelName,
      accountName |-> accountName,
      addedHoldings |->
          Dedupe(CollectChanged(todaySymbols, yesterdaySymbols, todayHoldings, TRUE, <<>>)),
      removedHoldings |->
          Dedupe(CollectChanged(yesterdaySymbols, todaySymbols, yesterdayHoldings, FALSE, <<>>)),
      date |-> date ]

CompareFullStrings(todayHoldings, yesterdayHoldings, modelName, accountName, date) ==
    [ modelName |-> modelName,
      accountName |-> accountName,
      addedHoldings |->
          Dedupe(SelectSeq(todayHoldings, LAMBDA h : ~Includes(yesterdayHoldings, h))),
      removedHoldings |->
          Dedupe(SelectSeq(yesterdayHoldings, LAMBDA h : ~Includes(todayHoldings, h))),
      date |-> date ]

compareModelHoldingsWithWeights(todayModel, yesterdayModel, accountName, date) ==
    CompareFullStrings(extractHoldingsFromPortfolio(todayModel.portfolio),
                       extractHoldingsFromPortfolio(PortfolioOf(yesterdayModel)),
                       todayModel.name, accountName, date)

compareModelHoldings(todayModel, yesterdayModel, accountName, date) ==
    CompareExtracted(extractSecuritySymbols(todayModel.portfolio),
                     extractSecuritySymbols(PortfolioOf(yesterdayModel)),
                     extractHoldingsFromPortfolio(todayModel.portfolio),
                     extractHoldingsFromPortfolio(PortfolioOf(yesterdayModel)),
                     todayModel.name, accountName, date)

\* lines 58-64 of detectChanges: the model's change is pushed when it is not
\* empty and its account noted; st = [changes, affected]
PushIfChanged(st, modelChanges, accountName) ==
    IF Len(modelChanges.addedHoldings) > 0 \/ Len(modelChanges.removedHoldings) > 0
    THEN [ changes |-> Append(st.changes, modelChanges),
           affected |-> IF Includes(st.affected, accountName) THEN st.affected
                        ELSE Append(st.affected, accountName) ]
    ELSE st

----------------------------------------------------------------------------
(* ChangeDetectionService.detectChanges *)

\* An AccountPortfolio is [accountName, models]; totalValue and date are not
\* read by the change detector.

\* a.localeCompare(b) < 0 and the default sort order, on the names of the model
NamesInOrder == <<"acctA", "acctB", "m1", "m2">>
NameRank(name) == CHOOSE i \in 1..Len(NamesInOrder) : NamesInOrder[i] = name
NameBefore(a, b) == NameRank(a) < NameRank(b)

\* portfolios.find(ya => ya.accountName === accountName)
RECURSIVE FindAccount(_, _)
FindAccount(portfolios, accountName) ==
    IF portfolios = <<>> THEN <<>>
    ELSE IF Head(portfolios).accountName = accountName THEN <<Head(portfolios)>>
    ELSE FindAccount(Tail(portfolios), accountName)

\* models.find(m => m.name === name)
RECURSIVE FindModel(_, _)
FindModel(models, name) ==
    IF models = <<>> THEN <<>>
    ELSE IF Head(models).name = name THEN <<Head(models)>>
    ELSE FindModel(Tail(models), name)

ModelsOf(optAccount) == IF optAccount = <<>> THEN <<>> ELSE optAccount[1].models

\* if (!affectedAccounts.includes(name)) affectedAccounts.push(name)
PushAccount(affectedAccounts, accountName) ==
    IF Includes(affectedAccounts, accountName) THEN affectedAccounts
    ELSE Append(affectedAccounts, accountName)

\* lines 52-65: the loop over today's models of one account; st = [changes, affected]
RECURSIVE TodayModelLoop(_, _, _, _, _)
TodayModelLoop(models, previousAccount, accountName, date, st) ==
    IF models = <<>> THEN st
    ELSE TodayModelLoop(Tail(models), previousAccount, accountName, date,
             PushIfChanged(st,
                 compareModelHoldings(Head(models),
                                      FindModel(ModelsOf(previousAccount), Head(models).name),
                                      accountName, date),
                 accountName))

RECURSIVE RemovedModelLoopSwapped(_, _, _, _, _)
RemovedModelLoopSwapped(previousModels, todayModels, accountName, date, st) ==
    IF previousModels = <<>> THEN st
    ELSE LET previousModel == Head(previousModels)
             todayModelExists == FindModel(todayModels, previousModel.name)
             allPreviousHoldings == extractHoldingsFromPortfolio(previousModel.portfolio)
         IN  RemovedModelLoopSwapped(Tail(previousModels), todayModels, accountName, date,
                 IF todayModelExists = <<>>
                 THEN [changes |-> Append(st.changes,
                                     [ modelName |-> previousModel.name,
                                       accountName |-> accountName,
                                       addedHoldings |-> allPreviousHoldings,
                                       removedHoldings |-> <<>>,
                                       date |-> date ]),
                       affected |-> PushAccount(st.affected, accountName)]
                 ELSE st)

\* lines 67-89: the loop over the comparison day's models of the account
RECURSIVE RemovedModelLoop(_, _, _, _, _)
RemovedModelLoop(previousModels, todayModels, accountName, date, st) ==
    IF previousModels = <<>> THEN st
    ELSE LET previousModel == Head(previousModels)
             todayModelExists == FindModel(todayModels, previousModel.name)
             allPreviousHoldings == extractHoldingsFromPortfolio(previousModel.portfolio)
         IN  RemovedModelLoop(Tail(previousModels), todayModels, accountName, date,
                 IF todayModelExists = <<>>
                 THEN [changes |-> Append(st.changes,
                                     [ modelName |-> previousModel.name,
                                       accountName |-> accountName,
                                       addedHoldings |-> <<>>,
                                       removedHoldings |-> allPreviousHoldings,
                                       date |-> date ]),
                       affected |-> PushAccount(st.affected, accountName)]
                 ELSE st)

RECURSIVE AccountLoopBothDays(_, _, _, _)
AccountLoopBothDays(todayPortfolios, previousPortfolios, date, st) ==
    IF todayPortfolios = <<>>
    THEN [changes |-> st.changes \o
                      [i \in 1..Len(previousPortfolios) |->
                          [ modelName |-> previousPortfolios[i].models[1].name,
                            accountName |-> previousPortfolios[i].accountName,
                            addedHoldings |-> <<>>,
                            removedHoldings |-> extractHoldingsFromPortfolio(
                                                    previousPortfolios[i].models[1].portfolio),
                            date |-> date ]],
          affected |-> st.affected]
    ELSE LET todayAccount == Head(todayPortfolios)
             previousAccount == FindAccount(previousPortfolios, todayAccount.accountName)
             afterToday == TodayModelLoop(todayAccount.models, previousAccount,
                                          todayAccount.accountName, date, st)
             afterRemoved == RemovedModelLoop(ModelsOf(previousAccount), todayAccount.models,
                                              todayAccount.accountName, date, afterToday)
         IN  AccountLoopBothDays(Tail(todayPortfolios), previousPortfolios, date, afterRemoved)

\* lines 48-90: the loop over today's accounts
RECURSIVE AccountLoop(_, _, _, _)
AccountLoop(todayPortfolios, previousPortfolios, date, st) ==
    IF todayPortfolios = <<>> THEN st
    ELSE LET todayAccount == Head(todayPortfolios)
             previousAccount == FindAccount(previousPortfolios, todayAccount.accountName)
             afterToday == TodayModelLoop(todayAccount.models, previousAccount,
                                          todayAccount.accountName, date, st)
             afterRemoved == RemovedModelLoop(ModelsOf(previousAccount), todayAccount.models,
                                              todayAccount.accountName, date, afterToday)
         IN  AccountLoop(Tail(todayPortfolios), previousPortfolios, date, afterRemoved)

\* the comparator of changes.sort: a goes before b
ChangeBefore(a, b) ==
    IF a.accountName # b.accountName THEN NameBefore(a.accountName, b.accountName)
    ELSE NameBefore(a.modelName, b.modelName)

\* Array.prototype.sort (stable): insert x after the last element not after it
RECURSIVE InsertChange(_, _)
InsertChange(sorted, x) ==
    IF sorted = <<>> THEN <<x>>
    ELSE IF ChangeBefore(x, Head(sorted)) THEN <<x>> \o sorted
    ELSE <<Head(sorted)>> \o InsertChange(Tail(sorted), x)

RECURSIVE SortChanges(_)
SortChanges(changes) ==
    IF changes = <<>> THEN <<>>
    ELSE InsertChange(SortChanges(SubSeq(changes, 1, Len(changes) - 1)), changes[Len(changes)])

RECURSIVE InsertName(_, _)
InsertName(sorted, x) ==
    IF sorted = <<>> THEN <<x>>
    ELSE IF NameBefore(x, Head(sorted)) THEN <<x>> \o sorted
    ELSE <<Head(sorted)>> \o InsertName(Tail(sorted), x)

RECURSIVE SortNames(_)
SortNames(names) ==
    IF names = <<>> THEN <<>>
    ELSE InsertName(SortNames(SubSeq(names, 1, Len(names) - 1)), names[Len(names)])

\* lines 20-31: the ChangeAlert of a day that is not a trading day
NonTradingDayAlert(date, west) ==
    [ hasChanges |-> FALSE,
      totalChanges |-> 0,
      changes |-> <<>>,
      affectedAccounts |-> <<>>,
      date |-> date,
      message |-> getNoChangeReason(date, west),
      comparisonDate |-> <<>> ]

\* lines 100-110: the ChangeAlert of the sorted changes and accounts
MakeChangeAlert(date, previousTradingDay, changes, affectedAccounts) ==
    [ hasChanges |-> Len(changes) > 0,
      changes |-> changes,
      totalChanges |-> Len(changes),
      affectedAccounts |-> affectedAccounts,
      date |-> date,
      comparisonDate |-> <<previousTradingDay>>,
      message |->
          IF Len(changes) > 0
          THEN <<"Found ", Len(changes), " changes compared to previous trading day (",
                 previousTradingDay, ")">>
          ELSE <<"No changes detected compared to previous trading day (",
                 previousTradingDay, ")">> ]

SortedChangeAlertUnsorted(date, previousTradingDay, st) ==
    MakeChangeAlert(date, previousTradingDay, st.changes, SortNames(st.affected))

\* lines 92-110: the lists the loops collected are sorted and returned
SortedChangeAlert(date, previousTradingDay, st) ==
    MakeChangeAlert(date, previousTradingDay, SortChanges(st.changes), SortNames(st.affected))

\* lines 44-110: the ChangeAlert built from the two days' portfolios
BuildChangeAlert(date, previousTradingDay, todayPortfolios, previousPortfolios) ==
    SortedChangeAlert(date, previousTradingDay,
        AccountLoop(todayPortfolios, previousPortfolios, date,
                    [changes |-> <<>>, affected |-> <<>>]))
----------------------------------------------------------------------------
(* The calendar functions applied to every date of the covered years *)

CalDates == { ToISODate(n) : n \in 8..MaxDay }

CalIdle ==
    /\ calDate = <<2024, 1, 1>>
    /\ calOp = "idle"
    /\ calRes = Null

CmpIdle ==
    /\ cmpToday = <<>>
    /\ cmpPrev = <<>>
    /\ cmpPc = "idle"
    /\ cmpRes = <<>>
    /\ cmpChanges = <<>>

NoFetch == [status |-> "none", data |-> <<>>]

DetIdle ==
    /\ pc = "idle"
    /\ today = <<2024, 1, 1>>
    /\ prevDay = <<>>
    /\ fetchCalls = <<>>
    /\ fetchToday = NoFetch
    /\ fetchPrev = NoFetch
    /\ joinError = <<>>
    /\ alert = <<>>
    /\ thrown = <<>>

LibIdle ==
    /\ fnOp = "idle"
    /\ fnArgs = <<>>
    /\ fnRes = <<>>

Requests == {1, 2}

ReqIdle ==
    /\ reqPc = [r \in Requests |-> "idle"]
    /\ reqFetched = [r \in Requests |-> <<>>]
    /\ heap = [r \in Requests |-> <<>>]
    /\ cache = <<>>
    /\ reqRet = [r \in Requests |-> <<>>]

WlIdle ==
    /\ wlPc = "idle"
    /\ wlModels = <<>>
    /\ wlHoldings = <<>>
    /\ wlCache = <<>>
    /\ wlRet = <<>>

\* the date part of the cache keys
CacheDates == { <<2024, 1, 11>>, <<2024, 1, 12>> }

\* `combined-accounts-${date}` and `model-watch-list-${date}`
CombinedAccountsKey(date) == <<"combined-accounts", "-">> \o date
ModelWatchListKey(date) == <<"model-watch-list", "-">> \o date

\* the keys in use: combined accounts of both dates, the watch list of one
WatchListDates == { <<2024, 1, 12>> }

CacheKeys ==
    { CombinedAccountsKey(d) : d \in CacheDates } \cup { ModelWatchListKey(d) : d \in WatchListDates }

\* private cache: Map<string, CacheEntry<any>> = new Map()
EmptyMap == [k \in CacheKeys |-> <<>>]

CacheIdle ==
    /\ clock = 0
    /\ store = EmptyMap
    /\ setLog = EmptyMap

ImapIdle ==
    /\ imapPc = "idle"
    /\ msgs = <<>>
    /\ emails = <<>>
    /\ imapRet = [state |-> "none", value |-> <<>>]

LoopIdle ==
    /\ loopCur = <<>>
    /\ loopSteps = 0

SvcIdle == CacheIdle /\ ImapIdle /\ LoopIdle

ExtIdle == LibIdle /\ ReqIdle /\ WlIdle /\ SvcIdle

CalInit ==
    /\ tzWest \in BOOLEAN
    /\ calDate \in CalDates
    /\ calOp = "none"
    /\ calRes = Null
    /\ CmpIdle
    /\ DetIdle
    /\ ExtIdle

CallIsTradingDay ==
    /\ calOp = "none"
    /\ calOp' = "isTradingDay"
    /\ calRes' = isTradingDay(calDate, tzWest)
    /\ UNCHANGED <<tzWest, calDate, cmpVars, detVars, extVars>>

CallGetPreviousTradingDay ==
    /\ calOp = "none"
    /\ calOp' = "getPreviousTradingDay"
    /\ calRes' = getPreviousTradingDay(calDate, tzWest)
    /\ UNCHANGED <<tzWest, calDate, cmpVars, detVars, extVars>>

CallGetNextTradingDay ==
    /\ calOp = "none"
    /\ calOp' = "getNextTradingDay"
    /\ calRes' = getNextTradingDay(calDate, tzWest)
    /\ UNCHANGED <<tzWest, calDate, cmpVars, detVars, extVars>>

CallGetNoChangeReason ==
    /\ calOp = "none"
    /\ calOp' = "getNoChangeReason"
    /\ calRes' = getNoChangeReason(calDate, tzWest)
    /\ UNCHANGED <<tzWest, calDate, cmpVars, detVars, extVars>>

\* compareWithPreviousDay: yesterday = formatDate(getPreviousBusinessDay(new Date()))
\* on the run date calDate
CallGetPreviousBusinessDay ==
    /\ calOp = "none"
    /\ calOp' = "getPreviousBusinessDay"
    /\ calRes' = ToISODate(getPreviousBusinessDay(ParseDate(calDate), tzWest))
    /\ UNCHANGED <<tzWest, calDate, cmpVars, detVars, extVars>>

CalNext ==
    \/ CallIsTradingDay
    \/ CallGetPreviousTradingDay
    \/ CallGetNextTradingDay
    \/ CallGetNoChangeReason
    \/ CallGetPreviousBusinessDay

SpecCal == CalInit /\ [][CalNext]_vars

----------------------------------------------------------------------------
(* compareModelHoldings applied to one model of one account, as the model    *)
(* loop of detectChanges applies it                                          *)

\* the pieces portfolio texts are made of: a holding with two weights, a holding
\* whose symbol extends the first one's (with a line break before the weight),
\* and a bare symbol character
Pieces ==
    { <<"A", " ", "(", "1", "%", ")">>,
      <<"A", " ", "(", "2", "%", ")">>,
      <<"A", "B", "\n", "(", "1", "%", ")">>,
      <<"B">> }

CmpTexts == { Concat(ps) : ps \in UNION { [1..n -> Pieces] : n \in 0..MaxPieces } }

CmpInit ==
    /\ tzWest = FALSE
    /\ CalIdle
    /\ cmpToday \in { <<[name |-> "m1", portfolio |-> t]>> : t \in CmpTexts }
    /\ cmpPrev \in {<<>>} \cup { <<[name |-> "m1", portfolio |-> t]>> : t \in CmpTexts }
    /\ cmpPc = "start"
    /\ cmpRes = <<>>
    /\ cmpChanges = <<>>
    /\ DetIdle
    /\ ExtIdle

CompareModel ==
    /\ cmpPc = "start"
    /\ cmpRes' = <<compareModelHoldings(cmpToday[1], cmpPrev, "acctA", <<2024, 1, 3>>)>>
    /\ cmpChanges' = PushIfChanged([changes |-> <<>>, affected |-> <<>>],
                                   cmpRes'[1], "acctA").changes
    /\ cmpPc' = "done"
    /\ UNCHANGED <<cmpToday, cmpPrev, calVars, detVars, extVars>>

CmpNext == CompareModel

SpecCmp == CmpInit /\ [][CmpNext]_vars

----------------------------------------------------------------------------
(* detectChanges called once; getAccountPortfolios is the environment: each  *)
(* call returns the account portfolios of its date or throws                  *)

\* the dates detectChanges is called with: Friday 2024-01-12, the weekend,
\* Monday 2024-01-15 (a listed holiday) and Tuesday 2024-01-16
DetectDates == { <<2024, 1, 12>>, <<2024, 1, 13>>, <<2024, 1, 14>>, <<2024, 1, 15>>, <<2024, 1, 16>> }

DetectTexts == { <<>>, <<"A", " ", "(", "1", "%", ")">> }

\* a model of a day, with the account the mapping sheet assigns it to
ModelChoices ==
    { [account |-> a, name |-> n, portfolio |-> t] :
        a \in {"acctA"}, n \in {"m1", "m2"}, t \in DetectTexts }
    \cup { [account |-> "acctB", name |-> "m1", portfolio |-> t] : t \in DetectTexts }

StripAccount(ms) == [i \in 1..Len(ms) |-> [name |-> ms[i].name, portfolio |-> ms[i].portfolio]]

\* what getAccountPortfolios returns for a list of assigned models: one
\* AccountPortfolio per account that has a model, sorted by account name
PortfoliosOf(ms) ==
    LET accountOf(a) == [ accountName |-> a,
                          models |-> StripAccount(SelectSeq(ms, LAMBDA m : m.account = a)) ]
        present == SelectSeq(<<"acctA", "acctB">>, LAMBDA a : \E i \in 1..Len(ms) : ms[i].account = a)
    IN  [i \in 1..Len(present) |-> accountOf(present[i])]

DayChoices == { PortfoliosOf(ms) : ms \in UNION { [1..n -> ModelChoices] : n \in 0..MaxModels } }

Init ==
    /\ tzWest \in BOOLEAN
    /\ CalIdle
    /\ CmpIdle
    /\ pc = "start"
    /\ today \in DetectDates
    /\ prevDay = <<>>
    /\ fetchCalls = <<>>
    /\ fetchToday = NoFetch
    /\ fetchPrev = NoFetch
    /\ joinError = <<>>
    /\ alert = <<>>
    /\ thrown = <<>>
    /\ ExtIdle

\* lines 17-31: today is not a trading day
DetectNonTradingDay ==
    /\ pc = "start"
    /\ ~isTradingDay(today, tzWest)
    /\ alert' = <<NonTradingDayAlert(today, tzWest)>>
    /\ pc' = "done"
    /\ UNCHANGED <<extVars, calVars, cmpVars, today, prevDay, fetchCalls, fetchToday,
                   fetchPrev, joinError, thrown>>

\* lines 33-40: both getAccountPortfolios calls are made, then detectChanges awaits
DetectStartFetches ==
    /\ pc = "start"
    /\ isTradingDay(today, tzWest)
    /\ LET previousTradingDay == getPreviousTradingDay(today, tzWest)
       IN  /\ prevDay' = <<previousTradingDay>>
           /\ fetchCalls' = <<today, previousTradingDay>>
    /\ fetchToday' = [status |-> "pending", data |-> <<>>]
    /\ fetchPrev' = [status |-> "pending", data |-> <<>>]
    /\ pc' = "fetching"
    /\ UNCHANGED <<extVars, calVars, cmpVars, today, joinError, alert, thrown>>

ResolveToday ==
    /\ fetchToday.status = "pending"
    /\ \E data \in DayChoices : fetchToday' = [status |-> "ok", data |-> data]
    /\ UNCHANGED <<extVars, calVars, cmpVars, pc, today, prevDay, fetchCalls, fetchPrev,
                   joinError, alert, thrown>>

ResolvePrev ==
    /\ fetchPrev.status = "pending"
    /\ \E data \in DayChoices : fetchPrev' = [status |-> "ok", data |-> data]
    /\ UNCHANGED <<extVars, calVars, cmpVars, pc, today, prevDay, fetchCalls, fetchToday,
                   joinError, alert, thrown>>

\* a rejected getAccountPortfolios rejects Promise.all unless it is rejected already
RejectToday ==
    /\ fetchToday.status = "pending"
    /\ fetchToday' = [status |-> "failed", data |-> <<>>]
    /\ joinError' = IF joinError = <<>> THEN <<"error of today's fetch">> ELSE joinError
    /\ UNCHANGED <<extVars, calVars, cmpVars, pc, today, prevDay, fetchCalls, fetchPrev,
                   alert, thrown>>

RejectPrev ==
    /\ fetchPrev.status = "pending"
    /\ fetchPrev' = [status |-> "failed", data |-> <<>>]
    /\ joinError' = IF joinError = <<>> THEN <<"error of the comparison day's fetch">> ELSE joinError
    /\ UNCHANGED <<extVars, calVars, cmpVars, pc, today, prevDay, fetchCalls, fetchToday,
                   alert, thrown>>

\* lines 42-113: Promise.all fulfilled, the alert is built and returned
DetectBuildAlertTolerant ==
    /\ pc = "fetching"
    /\ fetchToday.status # "pending" /\ fetchPrev.status # "pending"
    /\ alert' = <<BuildChangeAlert(today, prevDay[1], fetchToday.data, fetchPrev.data)>>
    /\ pc' = "done"
    /\ UNCHANGED <<extVars, calVars, cmpVars, today, prevDay, fetchCalls, fetchToday,
                   fetchPrev, joinError, thrown>>

DetectBuildAlert ==
    /\ pc = "fetching"
    /\ fetchToday.status = "ok" /\ fetchPrev.status = "ok"
    /\ alert' = <<BuildChangeAlert(today, prevDay[1], fetchToday.data, fetchPrev.data)>>
    /\ pc' = "done"
    /\ UNCHANGED <<extVars, calVars, cmpVars, today, prevDay, fetchCalls, fetchToday,
                   fetchPrev, joinError, thrown>>

\* lines 115-118: Promise.all rejected, the error is logged and thrown again
DetectRethrow ==
    /\ pc = "fetching"
    /\ joinError # <<>>
    /\ thrown' = joinError
    /\ pc' = "failed"
    /\ UNCHANGED <<extVars, calVars, cmpVars, today, prevDay, fetchCalls, fetchToday,
                   fetchPrev, joinError, alert>>

Next ==
    \/ DetectNonTradingDay
    \/ DetectStartFetches
    \/ ResolveToday
    \/ ResolvePrev
    \/ RejectToday
    \/ RejectPrev
    \/ DetectBuildAlert
    \/ DetectRethrow

Spec == Init /\ [][Next]_vars

----------------------------------------------------------------------------
(* detectChanges on a day whose comparison day may have no emails:          *)
(* getAccountPortfolios then returns [] (accountPortfolioService.ts:63-66). *)
(* Today's account holds a model with any of the portfolio texts.           *)

\* today's data: account acctA with model m1 and, possibly, model m2
FirstDayChoices ==
    { << [ accountName |-> "acctA", models |-> <<[name |-> "m1", portfolio |-> t]>> \o rest ] >> :
        t \in CmpTexts,
        rest \in {<<>>} \cup { <<[name |-> "m2", portfolio |-> u]>> : u \in DetectTexts } }

\* the comparison day's data: no emails, or the account with m1
FirstPrevChoices ==
    { <<>>,
      << [ accountName |-> "acctA",
           models |-> <<[name |-> "m1", portfolio |-> <<"A", " ", "(", "1", "%", ")">>]>> ] >> }

FirstInit ==
    /\ tzWest \in BOOLEAN
    /\ CalIdle
    /\ CmpIdle
    /\ pc = "start"
    /\ today = <<2024, 1, 12>>
    /\ prevDay = <<>>
    /\ fetchCalls = <<>>
    /\ fetchToday = NoFetch
    /\ fetchPrev = NoFetch
    /\ joinError = <<>>
    /\ alert = <<>>
    /\ thrown = <<>>
    /\ ExtIdle

FirstResolveToday ==
    /\ fetchToday.status = "pending"
    /\ \E data \in FirstDayChoices : fetchToday' = [status |-> "ok", data |-> data]
    /\ UNCHANGED <<extVars, calVars, cmpVars, pc, today, prevDay, fetchCalls, fetchPrev,
                   joinError, alert, thrown>>

FirstResolvePrev ==
    /\ fetchPrev.status = "pending"
    /\ \E data \in FirstPrevChoices : fetchPrev' = [status |-> "ok", data |-> data]
    /\ UNCHANGED <<extVars, calVars, cmpVars, pc, today, prevDay, fetchCalls, fetchToday,
                   joinError, alert, thrown>>

FirstNext ==
    \/ DetectStartFetches
    \/ FirstResolveToday
    \/ FirstResolvePrev
    \/ DetectBuildAlert

SpecFirst == FirstInit /\ [][FirstNext]_vars

----------------------------------------------------------------------------
(* Calendar properties *)

\* a trading day of the calendar: a weekday that is not a listed holiday
CalendarTradingDay(s) == CalendarWeekday(s) \notin {0, 6} /\ s \notin MARKET_HOLIDAYS

\* C8: isTradingDay(d) is false exactly when d is a Saturday, a Sunday or a
\* listed holiday, and true for every other date.
C8_IsTradingDayExact ==
    calOp = "isTradingDay" => (calRes = CalendarTradingDay(calDate))

\* C30: isTradingDay, getPreviousTradingDay and getNextTradingDay give, for a
\* date string, the same result whatever the time zone of the process.
C30_SameInEveryTimeZone ==
    /\ calOp = "isTradingDay" => calRes = isTradingDay(calDate, ~tzWest)
    /\ calOp = "getPreviousTradingDay" => calRes = getPreviousTradingDay(calDate, ~tzWest)
    /\ calOp = "getNextTradingDay" => calRes = getNextTradingDay(calDate, ~tzWest)

\* C29: on every run date on which the daily summary is produced (a trading
\* day), the previous business day compareWithPreviousDay uses is the date
\* getPreviousTradingDay gives for the run date.
C29_BusinessDayIsTradingDay ==
    (calOp = "getPreviousBusinessDay" /\ isTradingDay(calDate, tzWest)) =>
        calRes = getPreviousTradingDay(calDate, tzWest)

NoTradingDayBetween(lo, hi) ==
    \A k \in (lo + 1)..(hi - 1) : ~CalendarTradingDay(ToISODate(k))

\* C9: getPreviousTradingDay(d) is a trading day strictly earlier than d with
\* no trading day strictly between, and getNextTradingDay(d) is a trading day
\* strictly later than d with no trading day strictly between.
C9_AdjacentTradingDay ==
    /\ calOp = "getPreviousTradingDay" =>
          /\ ParseDate(calRes) < ParseDate(calDate)
          /\ CalendarTradingDay(calRes)
          /\ NoTradingDayBetween(ParseDate(calRes), ParseDate(calDate))
    /\ calOp = "getNextTradingDay" =>
          /\ ParseDate(calRes) > ParseDate(calDate)
          /\ CalendarTradingDay(calRes)
          /\ NoTradingDayBetween(ParseDate(calDate), ParseDate(calRes))

\* the number of calendar days from the latest earlier date that isTradingDay
\* accepts to the date s
DaysSinceAcceptedDay(s, west) ==
    LET d == ParseDate(s)
    IN  CHOOSE g \in 1..d :
            /\ isTradingDay(ToISODate(d - g), west)
            /\ \A h \in 1..(g - 1) : ~isTradingDay(ToISODate(d - h), west)

----------------------------------------------------------------------------
(* Properties of compareModelHoldings *)

SymbolSet(text) == Range(extractSecuritySymbols(text))

\* the leading symbol of a holding string "SYMBOL (NN%)"
SymbolOfHolding(h) == SubSeq(h, 1, RunEnd(h, 1, SymChars) - 1)

\* reported lists, for every symbol of syms, a holding string of text that is
\* the symbol's own, and lists nothing else (a symbol the text lists twice
\* need only be reported once)
ReportsOwnHoldings(reported, text, syms) ==
    /\ \A h \in Range(reported) :
          h \in Range(extractHoldingsFromPortfolio(text)) /\ SymbolOfHolding(h) \in syms
    /\ \A sym \in syms : \E h \in Range(reported) : SymbolOfHolding(h) = sym

NoDuplicates(seq) == \A i, j \in 1..Len(seq) : seq[i] = seq[j] => i = j

\* C1: when a model is in the account on both days and the symbol sets of its
\* two portfolio texts are equal, compareModelHoldings returns empty added and
\* removed lists, whatever the weights, and no PortfolioChange is pushed.
C1_WeightOnlyNoChange ==
    (/\ cmpPc = "done"
     /\ cmpPrev # <<>>
     /\ SymbolSet(cmpToday[1].portfolio) = SymbolSet(cmpPrev[1].portfolio))
    => /\ cmpRes[1].addedHoldings = <<>>
       /\ cmpRes[1].removedHoldings = <<>>
       /\ cmpChanges = <<>>

\* the same non-empty symbol set on both days, in texts that differ
C1_Witness ==
    /\ cmpPc = "done"
    /\ cmpPrev # <<>>
    /\ SymbolSet(cmpToday[1].portfolio) = SymbolSet(cmpPrev[1].portfolio)
    /\ SymbolSet(cmpToday[1].portfolio) # {}
    /\ extractHoldingsFromPortfolio(cmpToday[1].portfolio)
         # extractHoldingsFromPortfolio(cmpPrev[1].portfolio)
    /\ cmpChanges = <<>>

\* C2: removedHoldings is exactly the comparison day's holding strings of the
\* symbols that are in the comparison day's set and not in today's, and
\* addedHoldings exactly today's holding strings of the symbols in today's set
\* and not in the comparison day's; each string is the symbol's own, none is
\* reported twice.
C2_ExactOwnHoldings ==
    cmpPc = "done" =>
        LET todayText == cmpToday[1].portfolio
            prevText == PortfolioOf(cmpPrev)
            gone == SymbolSet(prevText) \ SymbolSet(todayText)
            new == SymbolSet(todayText) \ SymbolSet(prevText)
        IN  /\ ReportsOwnHoldings(cmpRes[1].removedHoldings, prevText, gone)
            /\ ReportsOwnHoldings(cmpRes[1].addedHoldings, todayText, new)
            /\ NoDuplicates(cmpRes[1].removedHoldings)
            /\ NoDuplicates(cmpRes[1].addedHoldings)

----------------------------------------------------------------------------
(* Properties of detectChanges *)

\* the latest calendar trading day before the date s
CalendarPreviousTradingDay(s) ==
    LET d == ParseDate(s)
        g == CHOOSE g \in 1..d :
                 /\ CalendarTradingDay(ToISODate(d - g))
                 /\ \A h \in 1..(g - 1) : ~CalendarTradingDay(ToISODate(d - h))
    IN  ToISODate(d - g)

\* C3: detectChanges called with a Saturday, a Sunday or a listed holiday
\* returns hasChanges=false, totalChanges=0, empty changes and
\* affectedAccounts, comparisonDate=null and the calendar-derived message, and
\* getAccountPortfolios is never invoked during the call.
C3_NonTradingDayNoFetch ==
    ~CalendarTradingDay(today) =>
        /\ fetchCalls = <<>>
        /\ pc \in {"idle", "start", "done"}
        /\ pc = "done" =>
              /\ alert # <<>>
              /\ alert[1].hasChanges = FALSE
              /\ alert[1].totalChanges = 0
              /\ alert[1].changes = <<>>
              /\ alert[1].affectedAccounts = <<>>
              /\ alert[1].comparisonDate = <<>>
              /\ alert[1].message = getNoChangeReason(today, tzWest)

\* C4: on a trading day detectChanges fetches today's portfolios and those of
\* the latest earlier date that is neither a weekend day nor a listed holiday,
\* and the returned comparisonDate is that date.
C4_ComparesWithPreviousTradingDay ==
    (CalendarTradingDay(today) /\ pc \in {"fetching", "done", "failed"}) =>
        /\ fetchCalls = <<today, CalendarPreviousTradingDay(today)>>
        /\ prevDay = <<CalendarPreviousTradingDay(today)>>
        /\ pc = "done" => alert[1].comparisonDate = <<CalendarPreviousTradingDay(today)>>

\* the alert was built from the two fetched days
Compared == pc = "done" /\ prevDay # <<>>

\* the models of the comparison day's account a that have no model of the same
\* name in today's account a, as indices into the comparison day's model list
VanishedModels(a) ==
    LET previousModels == ModelsOf(FindAccount(fetchPrev.data, a))
        todayModels == ModelsOf(FindAccount(fetchToday.data, a))
    IN  { j \in 1..Len(previousModels) :
            \A i \in 1..Len(todayModels) : todayModels[i].name # previousModels[j].name }

TodayAccountNames == { fetchToday.data[i].accountName : i \in 1..Len(fetchToday.data) }

\* C5: for every account present today, each model of that account on the
\* comparison day that has no model of the same name in the account today
\* yields a PortfolioChange for it with empty addedHoldings and with
\* removedHoldings equal to all holding strings of its comparison-day text.
C5_VanishedModelFullRemoval ==
    Compared =>
        \A a \in TodayAccountNames : \A j \in VanishedModels(a) :
            LET previousModel == ModelsOf(FindAccount(fetchPrev.data, a))[j]
            IN  \E k \in 1..Len(alert[1].changes) :
                    /\ alert[1].changes[k].modelName = previousModel.name
                    /\ alert[1].changes[k].accountName = a
                    /\ alert[1].changes[k].addedHoldings = <<>>
                    /\ alert[1].changes[k].removedHoldings
                         = extractHoldingsFromPortfolio(previousModel.portfolio)

\* a model with holdings vanished from an account that is present today
C5_Witness ==
    /\ Compared
    /\ \E a \in TodayAccountNames : \E j \in VanishedModels(a) :
          extractHoldingsFromPortfolio(ModelsOf(FindAccount(fetchPrev.data, a))[j].portfolio) # <<>>

\* C6: every PortfolioChange of the returned changes list has a non-empty
\* addedHoldings or a non-empty removedHoldings.
C6_NoEmptyChange ==
    pc = "done" =>
        \A k \in 1..Len(alert[1].changes) :
            \/ alert[1].changes[k].addedHoldings # <<>>
            \/ alert[1].changes[k].removedHoldings # <<>>

\* C7: if the fetch of either day fails, detectChanges returns no ChangeAlert
\* and fails with the error of a failed fetch; a returned alert of a trading
\* day is built from both days' data.
C7_AllOrNothing ==
    /\ (fetchToday.status = "failed" \/ fetchPrev.status = "failed") =>
          /\ alert = <<>>
          /\ pc \in {"fetching", "failed"}
    /\ pc = "failed" =>
          /\ thrown # <<>>
          /\ \/ thrown = <<"error of today's fetch">> /\ fetchToday.status = "failed"
             \/ thrown = <<"error of the comparison day's fetch">> /\ fetchPrev.status = "failed"
    /\ Compared => fetchToday.status = "ok" /\ fetchPrev.status = "ok" /\ thrown = <<>>

\* detectChanges threw although one day's portfolios had arrived
C7_Witness ==
    /\ pc = "failed"
    /\ fetchToday.status = "ok"
    /\ fetchToday.data # <<>>
    /\ fetchPrev.status = "failed"

\* detectChanges returned a ChangeAlert (of a trading day or not)
Returned == pc = "done" /\ alert # <<>>

ChangeAccountNames(changes) == { changes[k].accountName : k \in 1..Len(changes) }

PreviousAccountNames == { fetchPrev.data[i].accountName : i \in 1..Len(fetchPrev.data) }

\* C23: detectChanges examines only the accounts of today's portfolios: the
\* accountName of every PortfolioChange is an account of today's data, and an
\* account that had models on the comparison day and is absent from today's
\* data has no PortfolioChange.
C23_OnlyTodaysAccounts ==
    Compared =>
        /\ ChangeAccountNames(alert[1].changes) \subseteq TodayAccountNames
        /\ \A a \in PreviousAccountNames \ TodayAccountNames :
               /\ \A k \in 1..Len(alert[1].changes) : alert[1].changes[k].accountName # a
               /\ a \notin Range(alert[1].affectedAccounts)

\* an account with holdings on the comparison day is absent today, while
\* another account of today has a change
C23_Witness ==
    /\ Compared
    /\ alert[1].hasChanges
    /\ \E a \in PreviousAccountNames \ TodayAccountNames :
          \E j \in 1..Len(ModelsOf(FindAccount(fetchPrev.data, a))) :
              extractHoldingsFromPortfolio(
                  ModelsOf(FindAccount(fetchPrev.data, a))[j].portfolio) # <<>>

\* the changes of the alert for a model of an account
ChangesFor(a, n) ==
    { k \in 1..Len(alert[1].changes) :
        alert[1].changes[k].accountName = a /\ alert[1].changes[k].modelName = n }

\* the comparison day had no account portfolios and today has some
NothingToCompareWith == Compared /\ fetchPrev.data = <<>> /\ fetchToday.data # <<>>

\* every security held by a model of today is that of an added holding of a
\* change for the model
EveryHoldingAdded ==
    \A i \in 1..Len(fetchToday.data) : \A j \in 1..Len(fetchToday.data[i].models) :
        \A sym \in Range(extractSecuritySymbols(fetchToday.data[i].models[j].portfolio)) :
            \E k \in ChangesFor(fetchToday.data[i].accountName, fetchToday.data[i].models[j].name) :
                \E h \in Range(alert[1].changes[k].addedHoldings) :
                    extractSecuritySymbols(h) = <<sym>>

NoRemoval == \A k \in 1..Len(alert[1].changes) : alert[1].changes[k].removedHoldings = <<>>

SomeTextToday ==
    \E i \in 1..Len(fetchToday.data) : \E j \in 1..Len(fetchToday.data[i].models) :
        fetchToday.data[i].models[j].portfolio # <<>>

\* C28: when the comparison day yields no account portfolios while today has
\* data, detectChanges reports every holding of every model held today as an
\* added holding, reports no removal, and returns hasChanges = true whenever
\* some model of today has a non-empty portfolio text.
C28_FirstDayAllAdded ==
    NothingToCompareWith =>
        /\ EveryHoldingAdded
        /\ NoRemoval
        /\ SomeTextToday => alert[1].hasChanges

----------------------------------------------------------------------------
(* The model name matcher: modelsMatch of EmailParser and of                *)
(* AccountPortfolioService (the two bodies are the same).  A name is the    *)
(* tuple of its characters.                                                 *)

MaxNameLen == 3

\* the characters names are made of: a digit, the dot, a blank, and one letter
\* in both cases
NameChars == {"1", ".", " ", "g", "G"}
NameDigits == {"1"}

\* String.prototype.toLowerCase
toLowerCase(str) == [i \in 1..Len(str) |-> IF str[i] = "G" THEN "g" ELSE str[i]]

\* String.prototype.includes: sub occurs in str at some index
StrIncludes(str, sub) ==
    \E i \in 0..(Len(str) - Len(sub)) : SubSeq(str, i + 1, i + Len(sub)) = sub

\* str.replace(/^\d+\.\s*/, ''): a leading run of digits, a dot and the
\* whitespace after it are removed; anything else is left as it is
StripNumberPrefix(str) ==
    LET j == RunEnd(str, 1, NameDigits)
    IN  IF j > 1 /\ CharAt(str, j, ".")
        THEN SubSeq(str, RunEnd(str, j + 1, WsChars), Len(str))
        ELSE str

modelsMatchNoClean(emailModel, sheetModel) ==
    IF emailModel = <<>> \/ sheetModel = <<>> THEN FALSE
    ELSE IF toLowerCase(emailModel) = toLowerCase(sheetModel) THEN TRUE
    ELSE \/ StrIncludes(toLowerCase(emailModel), toLowerCase(sheetModel))
         \/ StrIncludes(toLowerCase(sheetModel), toLowerCase(emailModel))

modelsMatch(emailModel, sheetModel) ==
    IF emailModel = <<>> \/ sheetModel = <<>> THEN FALSE
    ELSE IF toLowerCase(emailModel) = toLowerCase(sheetModel) THEN TRUE
    ELSE IF \/ StrIncludes(toLowerCase(emailModel), toLowerCase(sheetModel))
            \/ StrIncludes(toLowerCase(sheetModel), toLowerCase(emailModel))
    THEN TRUE
    ELSE toLowerCase(Trim(StripNumberPrefix(emailModel)))
             = toLowerCase(Trim(StripNumberPrefix(sheetModel)))

\* ModelWatchListService.modelsMatch
ownedModelsMatch(modelName1, modelName2) ==
    IF modelName1 = <<>> \/ modelName2 = <<>> THEN FALSE
    ELSE IF toLowerCase(modelName1) = toLowerCase(modelName2) THEN TRUE
    ELSE IF toLowerCase(Trim(StripNumberPrefix(modelName1)))
                = toLowerCase(Trim(StripNumberPrefix(modelName2)))
    THEN TRUE
    ELSE \/ StrIncludes(toLowerCase(Trim(StripNumberPrefix(modelName1))),
                        toLowerCase(Trim(StripNumberPrefix(modelName2))))
         \/ StrIncludes(toLowerCase(Trim(StripNumberPrefix(modelName2))),
                        toLowerCase(Trim(StripNumberPrefix(modelName1))))

\* the names found in emails, and the (one character shorter) names of the sheet
Names == UNION { [1..n -> NameChars] : n \in 0..MaxNameLen }
SheetNames == { n \in Names : Len(n) < MaxNameLen }

MatchInit ==
    /\ tzWest = FALSE
    /\ CalIdle
    /\ CmpIdle
    /\ DetIdle
    /\ fnOp = "none"
    /\ fnArgs \in Names \X SheetNames
    /\ fnRes = <<>>
    /\ ReqIdle
    /\ WlIdle
    /\ SvcIdle

CallModelsMatch ==
    /\ fnOp = "none"
    /\ Len(fnArgs) = 2
    /\ fnOp' = "modelsMatch"
    /\ fnRes' = <<modelsMatch(fnArgs[1], fnArgs[2])>>
    /\ UNCHANGED <<fnArgs, calVars, cmpVars, detVars, reqVars, wlVars, svcVars>>

CallOwnedModelsMatch ==
    /\ fnOp = "none"
    /\ Len(fnArgs) = 2
    /\ fnOp' = "ownedModelsMatch"
    /\ fnRes' = <<ownedModelsMatch(fnArgs[1], fnArgs[2])>>
    /\ UNCHANGED <<fnArgs, calVars, cmpVars, detVars, reqVars, wlVars, svcVars>>

MatchNext == CallModelsMatch \/ CallOwnedModelsMatch

SpecMatch == MatchInit /\ [][MatchNext]_vars

(* Properties of modelsMatch *)

\* the name without a leading "<digits>. " (digits, a dot and one blank)
WithoutDigitsDotBlank(str) ==
    IF \E j \in 2..(Len(str) - 1) :
           /\ \A i \in 1..(j - 1) : str[i] \in NameDigits
           /\ str[j] = "."
           /\ str[j + 1] = " "
    THEN LET j == CHOOSE k \in 2..(Len(str) - 1) :
                      /\ \A i \in 1..(k - 1) : str[i] \in NameDigits
                      /\ str[k] = "."
                      /\ str[k + 1] = " "
         IN  SubSeq(str, j + 2, Len(str))
    ELSE str

EqualIgnoringCase(a, b) == toLowerCase(a) = toLowerCase(b)

ContainsIgnoringCase(a, b) ==
    \E i \in 1..(Len(a) + 1), j \in 0..Len(a) :
        /\ j >= i - 1
        /\ toLowerCase(SubSeq(a, i, j)) = toLowerCase(b)

\* str starts with digits and a dot
HasNumberPrefix(str) ==
    \E d \in 2..Len(str) : str[d] = "." /\ \A k \in 1..(d - 1) : str[k] \in NameDigits

\* str is pre \o core \o post, where core neither starts nor ends with
\* whitespace, post is whitespace, and pre is digits, a dot and whitespace if
\* str starts with digits and a dot, and whitespace otherwise
IsCoreOf(core, str) ==
    \E i \in 1..(Len(str) + 1), j \in 0..Len(str) :
        /\ j >= i - 1
        /\ SubSeq(str, i, j) = core
        /\ core = <<>> \/ (core[1] \notin WsChars /\ core[Len(core)] \notin WsChars)
        /\ \A k \in (j + 1)..Len(str) : str[k] \in WsChars
        /\ IF HasNumberPrefix(str)
           THEN \E d \in 2..(i - 1) :
                    /\ \A k \in 1..(d - 1) : str[k] \in NameDigits
                    /\ str[d] = "."
                    /\ \A k \in (d + 1)..(i - 1) : str[k] \in WsChars
           ELSE \A k \in 1..(i - 1) : str[k] \in WsChars

SameCoreIgnoringCase(a, b) ==
    \E i \in 1..(Len(a) + 1), j \in 0..Len(a) :
        /\ j >= i - 1
        /\ IsCoreOf(SubSeq(a, i, j), a)
        /\ \E k \in 1..(Len(b) + 1), l \in 0..Len(b) :
               /\ l >= k - 1
               /\ IsCoreOf(SubSeq(b, k, l), b)
               /\ EqualIgnoringCase(SubSeq(a, i, j), SubSeq(b, k, l))

MatchCalled == fnOp = "modelsMatch"

\* C11 as stated: modelsMatch is true exactly when, ignoring case, the names are
\* equal, or one contains the other, or they are equal after a leading
\* "<digits>. " is stripped from both
C11_MatchAsStated ==
    MatchCalled =>
        (fnRes[1] <=> \/ EqualIgnoringCase(fnArgs[1], fnArgs[2])
                      \/ ContainsIgnoringCase(fnArgs[1], fnArgs[2])
                      \/ ContainsIgnoringCase(fnArgs[2], fnArgs[1])
                      \/ EqualIgnoringCase(WithoutDigitsDotBlank(fnArgs[1]),
                                           WithoutDigitsDotBlank(fnArgs[2])))

\* C11 (amended): modelsMatch is false when a name is empty; for two non-empty
\* names it is true exactly when, ignoring case, the names are equal, or one
\* contains the other, or they are equal once a leading "<digits>." with the
\* whitespace after it is removed from both and both are trimmed
C11_MatchNonEmptyTrimmed ==
    MatchCalled =>
        (fnRes[1] <=> /\ fnArgs[1] # <<>>
                      /\ fnArgs[2] # <<>>
                      /\ \/ EqualIgnoringCase(fnArgs[1], fnArgs[2])
                         \/ ContainsIgnoringCase(fnArgs[1], fnArgs[2])
                         \/ ContainsIgnoringCase(fnArgs[2], fnArgs[1])
                         \/ SameCoreIgnoringCase(fnArgs[1], fnArgs[2]))

\* the third rule alone decides: "1.g" against " G"
C11_Witness ==
    /\ MatchCalled
    /\ fnArgs = << <<"1", ".", "g">>, <<" ", "G">> >>
    /\ fnRes = <<TRUE>>

\* C21: for every pair of names, the ownership test of the watch list
\* (ModelWatchListService.modelsMatch) gives the verdict of the matcher of
\* EmailParser and AccountPortfolioService
C21_OwnershipTestIsTheMatcher ==
    fnOp = "ownedModelsMatch" => fnRes[1] = modelsMatch(fnArgs[1], fnArgs[2])

----------------------------------------------------------------------------
(* EmailParser.parseNumber.  A number is NaN or the record                  *)
(* [neg, digits, scale]: the value (-1)^neg * digits / 10^scale.  The only  *)
(* digit of the texts is "1", so no two records denote the same value.      *)

MaxNumLen == 3

NumChars == {"$", ",", "(", ")", "-", "1", ".", "N", " "}
NumTexts == UNION { [1..n -> NumChars] : n \in 0..MaxNumLen }

NaN == [nan |-> TRUE]
Zero == [neg |-> FALSE, digits |-> 0, scale |-> 0]

\* value.replace(/[...]/g, ''): the characters of cls are removed
RemoveChars(str, cls) == SelectSeq(str, LAMBDA c : c \notin cls)

\* the decimal number a run of the digit "1" of length n denotes
RECURSIVE Ones(_)
Ones(n) == IF n = 0 THEN 0 ELSE 10 * Ones(n - 1) + 1

\* parseFloat of a text of digits, dots and minus signs: the longest prefix
\* "-"? digits* ("." digits*)? that holds a digit is the number, NaN if none
parseFloat(str) ==
    LET neg == CharAt(str, 1, "-")
        i == IF neg THEN 2 ELSE 1
        j == RunEnd(str, i, {"1"})
        k == IF CharAt(str, j, ".") THEN RunEnd(str, j + 1, {"1"}) ELSE j
        scale == IF k > j THEN k - j - 1 ELSE 0
    IN  IF (j - i) + scale = 0 THEN NaN
        ELSE [neg |-> neg, digits |-> Ones((j - i) + scale), scale |-> scale]

\* -Math.abs(num)
NegAbs(num) == IF num = NaN THEN NaN ELSE [num EXCEPT !.neg = TRUE]

parseNumber(value) ==
    IF value = <<>> THEN Zero
    ELSE LET cleaned == Trim(RemoveChars(value, {"$", ",", "(", ")"}))
             isNegative == Includes(value, "(") \/ StartsWith(cleaned, <<"-">>)
             num == parseFloat(RemoveChars(cleaned, NumChars \ {"1", ".", "-"}))
         IN  IF isNegative THEN NegAbs(num)
             ELSE IF num = NaN THEN Zero ELSE num

NumInit ==
    /\ tzWest = FALSE
    /\ CalIdle
    /\ CmpIdle
    /\ DetIdle
    /\ fnOp = "none"
    /\ fnArgs \in { <<t>> : t \in NumTexts }
    /\ fnRes = <<>>
    /\ ReqIdle
    /\ WlIdle
    /\ SvcIdle

CallParseNumber ==
    /\ fnOp = "none"
    /\ Len(fnArgs) = 1
    /\ fnOp' = "parseNumber"
    /\ fnRes' = <<parseNumber(fnArgs[1])>>
    /\ UNCHANGED <<fnArgs, calVars, cmpVars, detVars, reqVars, wlVars, svcVars>>

NumNext == CallParseNumber

SpecNum == NumInit /\ [][NumNext]_vars

(* Properties of parseNumber *)

\* the number left in the text once "$", "," and parentheses are stripped
NumberLeft(text) ==
    parseFloat(RemoveChars(text, NumChars \ {"1", ".", "-"}))

\* C12: parseNumber returns 0, never NaN, for a text without a parseable
\* number, and otherwise the number left after stripping, negative exactly
\* when the text contains "(" or starts with "-"
C12_ZeroNeverNaN ==
    fnOp = "parseNumber" =>
        /\ fnRes[1] # NaN
        /\ NumberLeft(fnArgs[1]) = NaN => fnRes[1] = Zero
        /\ NumberLeft(fnArgs[1]) # NaN =>
               fnRes[1] = [NumberLeft(fnArgs[1]) EXCEPT
                              !.neg = Includes(fnArgs[1], "(") \/ StartsWith(fnArgs[1], <<"-">>)]

----------------------------------------------------------------------------
(* AccountPortfolioService.getAccountPortfolios: the rows parsed from the   *)
(* day's emails are filtered by the models of the mapping sheet, fanned out *)
(* to the accounts of the matching rows, totalled and sorted.  An account   *)
(* name is a tuple of tokens: characters, and the currency codes as one     *)
(* token each.                                                              *)

MaxMappings == 2
MaxHoldings == 2

AcctTokens == <<" ", "-", "$", "CAD", "G", "H", "usd", "USD">>
TokenRank(t) == CHOOSE i \in 1..Len(AcctTokens) : AcctTokens[i] = t

\* a.localeCompare(b) < 0: the first token that differs decides, a proper
\* prefix comes first
RECURSIVE LocaleBefore(_, _)
LocaleBefore(a, b) ==
    IF b = <<>> THEN FALSE
    ELSE IF a = <<>> THEN TRUE
    ELSE IF Head(a) = Head(b) THEN LocaleBefore(Tail(a), Tail(b))
    ELSE TokenRank(Head(a)) < TokenRank(Head(b))

\* holding.performance || { finalEquity: holding.value, returnYTD:
\* holding.dayChangePercent, return12Month: 0, portfolio: '' } (the other
\* fields of the default are 0 or '' alike)
ModelDataOf(holding) ==
    [ name |-> holding.name,
      symbol |-> holding.symbol,
      performance |->
          IF holding.performance # <<>> THEN holding.performance[1]
          ELSE [ finalEquity |-> holding.value,
                 returnYTD |-> holding.dayChangePercent,
                 return12Month |-> 0,
                 portfolio |-> <<>> ] ]

\* parseAllTables: a row is kept if no model is allowed or some allowed model
\* matches its name
FilterAllowed(rows, allowedModels) ==
    SelectSeq(rows, LAMBDA h :
        \/ allowedModels = <<>>
        \/ \E i \in 1..Len(allowedModels) : modelsMatch(h.name, allowedModels[i]))

\* accountGroups[accountName].push(modelData), the key being created at its
\* first use; groups is the list of [accountName, models] in key order
PushToGroup(groups, accountName, modelData) ==
    IF \E i \in 1..Len(groups) : groups[i].accountName = accountName
    THEN [i \in 1..Len(groups) |->
             IF groups[i].accountName = accountName
             THEN [groups[i] EXCEPT !.models = Append(@, modelData)]
             ELSE groups[i]]
    ELSE Append(groups, [accountName |-> accountName, models |-> <<modelData>>])

\* the loop over the matching mapping rows of one holding
RECURSIVE AssignLoop(_, _, _)
AssignLoop(matchingMappings, modelData, groups) ==
    IF matchingMappings = <<>> THEN groups
    ELSE AssignLoop(Tail(matchingMappings), modelData,
                    PushToGroup(groups, Head(matchingMappings).account, modelData))

FirstOnly(seq) == IF seq = <<>> THEN <<>> ELSE <<Head(seq)>>

\* GroupLoop with mappings.find in place of mappings.filter: the first matching
\* row only
RECURSIVE GroupLoopFirstOnly(_, _, _)
GroupLoopFirstOnly(holdings, mappings, groups) ==
    IF holdings = <<>> THEN groups
    ELSE GroupLoopFirstOnly(Tail(holdings), mappings,
             AssignLoop(FirstOnly(SelectSeq(mappings,
                                      LAMBDA m : modelsMatch(Head(holdings).name, m.model))),
                        ModelDataOf(Head(holdings)), groups))

\* the loop over the holdings: each goes to every mapping row that matches it
RECURSIVE GroupLoop(_, _, _)
GroupLoop(holdings, mappings, groups) ==
    IF holdings = <<>> THEN groups
    ELSE GroupLoop(Tail(holdings), mappings,
             AssignLoop(SelectSeq(mappings, LAMBDA m : modelsMatch(Head(holdings).name, m.model)),
                        ModelDataOf(Head(holdings)), groups))

\* models.reduce((sum, model) => sum + model.performance.finalEquity, 0)
RECURSIVE SumFinalEquity(_)
SumFinalEquity(models) ==
    IF models = <<>> THEN 0
    ELSE SumFinalEquity(SubSeq(models, 1, Len(models) - 1))
             + models[Len(models)].performance.finalEquity

ToAccountPortfolios(groups, date) ==
    [i \in 1..Len(groups) |->
        [ accountName |-> groups[i].accountName,
          models |-> groups[i].models,
          totalValue |-> SumFinalEquity(groups[i].models),
          date |-> date ]]

\* accountPortfolios.sort((a, b) => a.accountName.localeCompare(b.accountName)):
\* a stable insertion sort
RECURSIVE SortByAccountName(_)
SortByAccountName(ps) ==
    IF ps = <<>> THEN <<>>
    ELSE LET sorted == SortByAccountName(SubSeq(ps, 1, Len(ps) - 1))
             x == ps[Len(ps)]
             k == Cardinality({i \in 1..Len(sorted) :
                                  ~LocaleBefore(x.accountName, sorted[i].accountName)})
         IN  SubSeq(sorted, 1, k) \o <<x>> \o SubSeq(sorted, k + 1, Len(sorted))

\* getAccountPortfolios once the mapping rows and the rows of the emails are there
AssembleAccountPortfolios(mappings, rows, date) ==
    SortByAccountName(ToAccountPortfolios(
        GroupLoop(FilterAllowed(rows, [i \in 1..Len(mappings) |-> mappings[i].model]),
                  mappings, <<>>),
        date))

\* the rows of the emails: a model without and one with performance data whose
\* names match both models of the sheet, a second row of the first name, and a
\* model that matches the sheet's digit model only
NameG == <<"g">>
NameOneG == <<"1", ".", "G">>
NameOne == <<"1">>

PerfChoice(equity, ret12) ==
    [finalEquity |-> equity, returnYTD |-> 1, return12Month |-> ret12, portfolio |-> <<>>]

HoldingRows ==
    { [name |-> NameOneG, symbol |-> "G", value |-> 1, dayChangePercent |-> 2,
       performance |-> <<>>],
      [name |-> NameOneG, symbol |-> "G", value |-> 1, dayChangePercent |-> 2,
       performance |-> <<PerfChoice(3, 5)>>],
      [name |-> NameG, symbol |-> "g", value |-> 2, dayChangePercent |-> 0,
       performance |-> <<PerfChoice(2, 0 - 4)>>],
      [name |-> NameOne, symbol |-> "1", value |-> 4, dayChangePercent |-> 1,
       performance |-> <<>>] }

AcctGlenUSD == <<"G", " ", "$", "USD">>
AcctGlenCAD == <<"G", " ", "$", "CAD">>
AcctH == <<"H">>

MappingRows ==
    { [model |-> m, account |-> a] :
        m \in {NameG, NameOne}, a \in {AcctGlenUSD, AcctGlenCAD, AcctH} }

SeqsUpTo(set, n) == UNION { [1..k -> set] : k \in 0..n }

AsmDate == <<2024, 1, 3>>

AsmInit ==
    /\ tzWest = FALSE
    /\ CalIdle
    /\ CmpIdle
    /\ DetIdle
    /\ fnOp = "none"
    /\ fnArgs \in SeqsUpTo(MappingRows, MaxMappings) \X SeqsUpTo(HoldingRows, MaxHoldings)
    /\ fnRes = <<>>
    /\ ReqIdle
    /\ WlIdle
    /\ SvcIdle

CallGetAccountPortfolios ==
    /\ fnOp = "none"
    /\ Len(fnArgs) = 2
    /\ fnOp' = "getAccountPortfolios"
    /\ fnRes' = <<AssembleAccountPortfolios(fnArgs[1], fnArgs[2], AsmDate)>>
    /\ UNCHANGED <<fnArgs, calVars, cmpVars, detVars, reqVars, wlVars, svcVars>>

AsmNext == CallGetAccountPortfolios

SpecAsm == AsmInit /\ [][AsmNext]_vars

(* Properties of getAccountPortfolios *)

\* the accounts of the mapping rows that match the name
MatchingAccounts(mappings, name) ==
    { mappings[i].account : i \in { j \in 1..Len(mappings) : modelsMatch(name, mappings[j].model) } }

\* the ModelData of the AccountPortfolios of the account
ModelsInAccount(portfolios, account) ==
    UNION { Range(portfolios[i].models) :
              i \in { j \in 1..Len(portfolios) : portfolios[j].accountName = account } }

AllAccountNames(portfolios) == { portfolios[i].accountName : i \in 1..Len(portfolios) }

AsmCalled == fnOp = "getAccountPortfolios"

\* C13: a row whose name matches mapping rows of several accounts has one and
\* the same ModelData (its name, symbol and performance) in the
\* AccountPortfolio of each of these accounts; a row that matches no mapping
\* row is in no AccountPortfolio, and the call returns
C13_FanOutToEveryAccount ==
    AsmCalled =>
        \A r \in 1..Len(fnArgs[2]) :
            LET h == fnArgs[2][r]
                accounts == MatchingAccounts(fnArgs[1], h.name)
            IN  /\ accounts # {} =>
                       \E md \in UNION { ModelsInAccount(fnRes[1], a) : a \in accounts } :
                           /\ md.name = h.name
                           /\ md.symbol = h.symbol
                           /\ h.performance # <<>> => md.performance = h.performance[1]
                           /\ \A a \in accounts : md \in ModelsInAccount(fnRes[1], a)
                /\ accounts = {} =>
                       \A a \in AllAccountNames(fnRes[1]) :
                           \A md \in ModelsInAccount(fnRes[1], a) : md.name # h.name

\* a row fanned out to two accounts next to a row that no mapping row matches
C13_Witness ==
    /\ AsmCalled
    /\ \E r \in 1..Len(fnArgs[2]) :
           Cardinality(MatchingAccounts(fnArgs[1], fnArgs[2][r].name)) = 2
    /\ \E r \in 1..Len(fnArgs[2]) : MatchingAccounts(fnArgs[1], fnArgs[2][r].name) = {}
    /\ Len(fnRes[1]) = 2

\* C27: in every AccountPortfolio getAccountPortfolios returns, each model
\* name occurs at most once, whatever rows the emails hold and whatever
\* mapping rows match them.
C27_ModelNamesUnique ==
    AsmCalled =>
        \A p \in 1..Len(fnRes[1]) :
            \A j, k \in 1..Len(fnRes[1][p].models) :
                j # k => fnRes[1][p].models[j].name # fnRes[1][p].models[k].name

----------------------------------------------------------------------------
(* CombinedAccountService: the currency suffix of an account name           *)

MaxAcctLen == 4

\* the tokens /(?:USD|CAD)/i matches, and their upper case
CurrencyTokens == {"USD", "CAD", "usd"}
toUpperCase(token) == IF token = "usd" THEN "USD" ELSE token

\* the index at which /\$(?:USD|CAD)$/i matches, 0 if it does not
CurrencyMatchStart(name) ==
    IF /\ Len(name) >= 2
       /\ name[Len(name)] \in CurrencyTokens
       /\ name[Len(name) - 1] = "$"
    THEN Len(name) - 1 ELSE 0

\* the start of the run of whitespace that ends before index i
RECURSIVE RunStart(_, _)
RunStart(name, i) ==
    IF i > 1 /\ name[i - 1] \in WsChars THEN RunStart(name, i - 1) ELSE i

\* fullAccountName.replace(/\s+\$(?:USD|CAD)$/i, ''): the leftmost match is the
\* whole run of whitespace before the "$", and there must be some
extractBaseAccountName(fullAccountName) ==
    IF /\ CurrencyMatchStart(fullAccountName) > 0
       /\ RunStart(fullAccountName, CurrencyMatchStart(fullAccountName))
              < CurrencyMatchStart(fullAccountName)
    THEN SubSeq(fullAccountName, 1,
                RunStart(fullAccountName, CurrencyMatchStart(fullAccountName)) - 1)
    ELSE fullAccountName

extractCurrency(fullAccountName) ==
    IF CurrencyMatchStart(fullAccountName) > 0
    THEN toUpperCase(fullAccountName[Len(fullAccountName)])
    ELSE "USD"

AcctNames == SeqsUpTo(Range(AcctTokens), MaxAcctLen)

AcctInit ==
    /\ tzWest = FALSE
    /\ CalIdle
    /\ CmpIdle
    /\ DetIdle
    /\ fnOp = "none"
    /\ fnArgs \in { <<n>> : n \in AcctNames }
    /\ fnRes = <<>>
    /\ ReqIdle
    /\ WlIdle
    /\ SvcIdle

CallExtractBaseAccountName ==
    /\ fnOp = "none"
    /\ Len(fnArgs) = 1
    /\ fnOp' = "extractBaseAccountName"
    /\ fnRes' = <<extractBaseAccountName(fnArgs[1])>>
    /\ UNCHANGED <<fnArgs, calVars, cmpVars, detVars, reqVars, wlVars, svcVars>>

CallExtractCurrency ==
    /\ fnOp = "none"
    /\ Len(fnArgs) = 1
    /\ fnOp' = "extractCurrency"
    /\ fnRes' = <<extractCurrency(fnArgs[1])>>
    /\ UNCHANGED <<fnArgs, calVars, cmpVars, detVars, reqVars, wlVars, svcVars>>

AcctNext == CallExtractBaseAccountName \/ CallExtractCurrency

SpecAcct == AcctInit /\ [][AcctNext]_vars

(* Properties of the currency suffix *)

\* the name ends with whitespace, "$" and USD or CAD in any case
HasCurrencySuffix(name) ==
    /\ Len(name) >= 3
    /\ name[Len(name) - 2] \in WsChars
    /\ name[Len(name) - 1] = "$"
    /\ name[Len(name)] \in CurrencyTokens

\* the name without its last two tokens and the whitespace before them
WithoutSuffixAndBlanks(name) ==
    LET rest == SubSeq(name, 1, Len(name) - 2)
        k == CHOOSE k \in 0..Len(rest) :
                 /\ \A i \in (k + 1)..Len(rest) : rest[i] \in WsChars
                 /\ k > 0 => rest[k] \notin WsChars
    IN  SubSeq(rest, 1, k)

\* C14: extractBaseAccountName removes a trailing "$USD" or "$CAD" with the
\* whitespace before it and leaves every other name unchanged; extractCurrency
\* gives the currency of such a suffix in upper case, and "USD" for a name
\* without one
C14_SuffixRemovedCurrencyRead ==
    /\ fnOp = "extractBaseAccountName" =>
           fnRes[1] = IF HasCurrencySuffix(fnArgs[1])
                      THEN WithoutSuffixAndBlanks(fnArgs[1]) ELSE fnArgs[1]
    /\ fnOp = "extractCurrency" =>
           fnRes[1] = IF HasCurrencySuffix(fnArgs[1])
                      THEN toUpperCase(fnArgs[1][Len(fnArgs[1])]) ELSE "USD"

----------------------------------------------------------------------------
(* CombinedAccountService.groupAccountsByCurrency and                       *)
(* addChangeDataToCombinedAccounts, applied one after the other as          *)
(* getCombinedAccountPortfolios applies them                                *)

MaxChanges == 2

\* the entry of groupedMap for the account, updated: the CurrencyPortfolio is
\* pushed and the total grows by the account's totalValue
AddCurrency(combinedAccount, account) ==
    [combinedAccount EXCEPT
        !.currencies = Append(@, [ currency |-> extractCurrency(account.accountName),
                                   models |-> account.models,
                                   totalValue |-> account.totalValue ]),
        !.totalValueAllCurrencies = @ + account.totalValue]

\* one round of the loop of groupAccountsByCurrency; groupedMap is the list
\* of its values in insertion order
GroupAccount(groupedMap, account, baseAccountName) ==
    IF \E i \in 1..Len(groupedMap) : groupedMap[i].baseAccountName = baseAccountName
    THEN [i \in 1..Len(groupedMap) |->
             IF groupedMap[i].baseAccountName = baseAccountName
             THEN AddCurrency(groupedMap[i], account) ELSE groupedMap[i]]
    ELSE Append(groupedMap,
                AddCurrency([ baseAccountName |-> baseAccountName,
                              currencies |-> <<>>,
                              totalValueAllCurrencies |-> 0,
                              date |-> account.date ], account))

\* groupAccountsByCurrency with the full account name as the key
RECURSIVE groupAccountsByFullName(_, _)
groupAccountsByFullName(accountPortfolios, groupedMap) ==
    IF accountPortfolios = <<>> THEN groupedMap
    ELSE groupAccountsByFullName(Tail(accountPortfolios),
             GroupAccount(groupedMap, Head(accountPortfolios),
                          Head(accountPortfolios).accountName))

RECURSIVE groupAccountsByCurrency(_, _)
groupAccountsByCurrency(accountPortfolios, groupedMap) ==
    IF accountPortfolios = <<>> THEN groupedMap
    ELSE groupAccountsByCurrency(Tail(accountPortfolios),
             GroupAccount(groupedMap, Head(accountPortfolios),
                          extractBaseAccountName(Head(accountPortfolios).accountName)))

\* accountChanges.flatMap(change => change[field])
RECURSIVE FlatMapField(_, _)
FlatMapField(accountChanges, field) ==
    IF accountChanges = <<>> THEN <<>>
    ELSE accountChanges[1][field] \o FlatMapField(Tail(accountChanges), field)

\* the changes block of lines 141-156 for the changes of one base account
ChangesBlock(accountChanges) ==
    IF Len(accountChanges) > 0
    THEN [ addedHoldings |-> Dedupe(FlatMapField(accountChanges, "addedHoldings")),
           removedHoldings |-> Dedupe(FlatMapField(accountChanges, "removedHoldings")),
           hasChanges |-> \/ Len(FlatMapField(accountChanges, "addedHoldings")) > 0
                          \/ Len(FlatMapField(accountChanges, "removedHoldings")) > 0 ]
    ELSE [ addedHoldings |-> <<>>, removedHoldings |-> <<>>, hasChanges |-> FALSE ]

WithChanges(combinedAccount, accountChanges) ==
    [ baseAccountName |-> combinedAccount.baseAccountName,
      currencies |-> combinedAccount.currencies,
      totalValueAllCurrencies |-> combinedAccount.totalValueAllCurrencies,
      date |-> combinedAccount.date,
      changes |-> ChangesBlock(accountChanges) ]

\* addChangeDataToCombinedAccounts with the filter comparing the full names
addChangeDataByFullName(combinedAccounts, changes, date) ==
    [i \in 1..Len(combinedAccounts) |->
        WithChanges(combinedAccounts[i],
            SelectSeq(changes, LAMBDA change :
                change.accountName = combinedAccounts[i].baseAccountName))]

addChangeDataToCombinedAccounts(combinedAccounts, changes, date) ==
    [i \in 1..Len(combinedAccounts) |->
        WithChanges(combinedAccounts[i],
            SelectSeq(changes, LAMBDA change :
                extractBaseAccountName(change.accountName)
                    = combinedAccounts[i].baseAccountName))]

\* the accounts of a day: the two currencies of one base account, one of them
\* also with a lower-case suffix after two blanks, and an account without suffix
AcctGlenLower == <<"G", " ", " ", "$", "usd">>
GrpAccountNames == {AcctGlenUSD, AcctGlenCAD, AcctGlenLower, AcctH}

\* what getAccountPortfolios returns for the accounts of the set, valued by
\* the function value: one AccountPortfolio each, sorted by account name
AccountListOf(value) ==
    SortByAccountName(
        [i \in 1..Cardinality(DOMAIN value) |->
            LET name == CHOOSE n \in DOMAIN value :
                            Cardinality({m \in DOMAIN value : LocaleBefore(m, n)}) = i - 1
            IN  [ accountName |-> name,
                  models |-> <<[name |-> NameG, symbol |-> "g",
                                performance |-> PerfChoice(value[name], 5)]>>,
                  totalValue |-> value[name],
                  date |-> AsmDate ]])

AccountLists ==
    { AccountListOf(value) : value \in UNION { [S -> {1, 2}] : S \in SUBSET GrpAccountNames } }

\* the PortfolioChanges of the day: an empty one, an addition, and a change
\* that repeats the addition and removes a holding
ChangeChoices ==
    { [ modelName |-> "m1", accountName |-> a, addedHoldings |-> c[1],
        removedHoldings |-> c[2], date |-> AsmDate ] :
        a \in {AcctGlenUSD, AcctGlenCAD, AcctH},
        c \in { << <<>>, <<>> >>, << <<"h1">>, <<>> >>, << <<"h1", "h2">>, <<"h3">> >> } }

GrpInit ==
    /\ tzWest = FALSE
    /\ CalIdle
    /\ CmpIdle
    /\ DetIdle
    /\ fnOp = "none"
    /\ fnArgs \in AccountLists \X SeqsUpTo(ChangeChoices, MaxChanges)
    /\ fnRes = <<>>
    /\ ReqIdle
    /\ WlIdle
    /\ SvcIdle

CallGroupAccountsByCurrency ==
    /\ fnOp = "none"
    /\ Len(fnArgs) = 2
    /\ fnArgs[1] \in AccountLists
    /\ fnOp' = "groupAccountsByCurrency"
    /\ fnRes' = <<groupAccountsByCurrency(fnArgs[1], <<>>)>>
    /\ UNCHANGED <<fnArgs, calVars, cmpVars, detVars, reqVars, wlVars, svcVars>>

CallAddChangeData ==
    /\ fnOp = "groupAccountsByCurrency"
    /\ fnOp' = "addChangeDataToCombinedAccounts"
    /\ fnRes' = <<fnRes[1], addChangeDataToCombinedAccounts(fnRes[1], fnArgs[2], AsmDate)>>
    /\ UNCHANGED <<fnArgs, calVars, cmpVars, detVars, reqVars, wlVars, svcVars>>

GrpNext == CallGroupAccountsByCurrency \/ CallAddChangeData

SpecGrp == GrpInit /\ [][GrpNext]_vars

(* Properties of the grouping by base account *)

Grouped == fnOp \in {"groupAccountsByCurrency", "addChangeDataToCombinedAccounts"}

\* the CurrencyPortfolios the accounts of one base account must appear as, in
\* the order of the accounts
CurrenciesOfBase(accounts, base) ==
    LET own == SelectSeq(accounts, LAMBDA a : extractBaseAccountName(a.accountName) = base)
    IN  [i \in 1..Len(own) |-> [ currency |-> extractCurrency(own[i].accountName),
                                 models |-> own[i].models,
                                 totalValue |-> own[i].totalValue ]]

RECURSIVE SumTotalValue(_)
SumTotalValue(currencies) ==
    IF currencies = <<>> THEN 0
    ELSE currencies[1].totalValue + SumTotalValue(Tail(currencies))

\* C15: every AccountPortfolio is exactly one CurrencyPortfolio of exactly one
\* CombinedAccountPortfolio, the one of its suffix-stripped name, and
\* totalValueAllCurrencies is the sum of the totalValues of the currencies
C15_OneCurrencyPortfolioEach ==
    Grouped =>
        /\ \A i, j \in 1..Len(fnRes[1]) :
               fnRes[1][i].baseAccountName = fnRes[1][j].baseAccountName => i = j
        /\ \A k \in 1..Len(fnArgs[1]) :
               \E i \in 1..Len(fnRes[1]) :
                   fnRes[1][i].baseAccountName = extractBaseAccountName(fnArgs[1][k].accountName)
        /\ \A i \in 1..Len(fnRes[1]) :
               /\ fnRes[1][i].currencies
                      = CurrenciesOfBase(fnArgs[1], fnRes[1][i].baseAccountName)
               /\ fnRes[1][i].totalValueAllCurrencies
                      = SumTotalValue(fnRes[1][i].currencies)

\* three accounts of one base account next to an account of another
C15_Witness ==
    /\ Grouped
    /\ Len(fnArgs[1]) = 4
    /\ Len(fnRes[1]) = 2
    /\ \E i \in 1..2 : Len(fnRes[1][i].currencies) = 3
                       /\ fnRes[1][i].totalValueAllCurrencies = 5

ChangeDataAdded == fnOp = "addChangeDataToCombinedAccounts"

\* the holdings of the field in the day's changes of the base account
HoldingsOfBase(changes, base, field) ==
    UNION { Range(changes[k][field]) :
              k \in { n \in 1..Len(changes) :
                        extractBaseAccountName(changes[n].accountName) = base } }

\* C16: the changes block of a CombinedAccountPortfolio holds, without
\* duplicates, exactly the added and removed holdings of the day's changes
\* whose suffix-stripped accountName is its baseAccountName, and hasChanges
\* says whether one of the two lists is non-empty
C16_ChangesOfOwnBaseOnly ==
    ChangeDataAdded =>
        \A i \in 1..Len(fnRes[2]) :
            LET block == fnRes[2][i].changes
                base == fnRes[2][i].baseAccountName
            IN  /\ Range(block.addedHoldings) = HoldingsOfBase(fnArgs[2], base, "addedHoldings")
                /\ Range(block.removedHoldings)
                       = HoldingsOfBase(fnArgs[2], base, "removedHoldings")
                /\ Cardinality(Range(block.addedHoldings)) = Len(block.addedHoldings)
                /\ Cardinality(Range(block.removedHoldings)) = Len(block.removedHoldings)
                /\ block.hasChanges
                       <=> (block.addedHoldings # <<>> \/ block.removedHoldings # <<>>)

\* two changes of the two currencies of one base account that repeat a holding,
\* beside another base account without a change
C16_Witness ==
    /\ ChangeDataAdded
    /\ Len(fnArgs[2]) = 2
    /\ fnArgs[2][1].accountName = AcctGlenUSD
    /\ fnArgs[2][2].accountName = AcctGlenCAD
    /\ \E i \in 1..Len(fnRes[2]) :
           /\ fnRes[2][i].changes.addedHoldings = <<"h1", "h2">>
           /\ fnRes[2][i].changes.hasChanges
    /\ \E i \in 1..Len(fnRes[2]) : ~fnRes[2][i].changes.hasChanges

----------------------------------------------------------------------------
(* CombinedAccountService.getCombinedAccountPortfolios called by two        *)
(* requests for one date, over the CacheService singleton.  JavaScript runs *)
(* the code between two awaits without interruption; an array is an object  *)
(* of the heap, and the cache entry and the return value refer to it.       *)

\* an account whose name sorts before "G $USD" and whose base name after "G"
AcctGlenDash == <<"G", " ", "-", " ", "$", "CAD">>

\* what the awaits of a request can resolve to: the day's AccountPortfolios
\* and the changes of the day's ChangeAlert
SvcAccountLists ==
    { AccountListOf([n \in S |-> 1]) :
        S \in { {AcctGlenDash, AcctGlenUSD}, {AcctGlenCAD, AcctGlenUSD} } }

SvcChanges ==
    { <<>>,
      << [ modelName |-> "m1", accountName |-> AcctGlenUSD, addedHoldings |-> <<"h1">>,
           removedHoldings |-> <<>>, date |-> AsmDate ] >> }

\* combinedAccounts.sort((a, b) => a.baseAccountName.localeCompare(b.baseAccountName))
RECURSIVE SortByBaseAccountName(_)
SortByBaseAccountName(cs) ==
    IF cs = <<>> THEN <<>>
    ELSE LET sorted == SortByBaseAccountName(SubSeq(cs, 1, Len(cs) - 1))
             x == cs[Len(cs)]
             k == Cardinality({i \in 1..Len(sorted) :
                                  ~LocaleBefore(x.baseAccountName, sorted[i].baseAccountName)})
         IN  SubSeq(sorted, 1, k) \o <<x>> \o SubSeq(sorted, k + 1, Len(sorted))

\* lines 55-58: the combined accounts of the fetched portfolios and changes
CombineFetched(accountPortfolios, changes) ==
    addChangeDataToCombinedAccounts(groupAccountsByCurrency(accountPortfolios, <<>>),
                                    changes, AsmDate)

\* a request is between cacheService.setCombinedAccounts and its return
Running == \E r \in Requests : reqPc[r] = "cached"

ReqInit ==
    /\ tzWest = FALSE
    /\ CalIdle
    /\ CmpIdle
    /\ DetIdle
    /\ LibIdle
    /\ WlIdle
    /\ SvcIdle
    /\ reqPc = [r \in Requests |-> "start"]
    /\ reqFetched = [r \in Requests |-> <<>>]
    /\ heap = [r \in Requests |-> <<>>]
    /\ cache = <<>>
    /\ reqRet = [r \in Requests |-> <<>>]

ReqOther == <<calVars, cmpVars, detVars, libVars, wlVars, svcVars>>

\* lines 40-44, CacheService.get lines 199-200: the entry is there and fresh
ReqCacheHit(r) ==
    /\ ~Running
    /\ reqPc[r] = "start"
    /\ cache # <<>>
    /\ reqRet' = [reqRet EXCEPT ![r] = cache]
    /\ reqPc' = [reqPc EXCEPT ![r] = "done"]
    /\ UNCHANGED <<reqFetched, heap, cache, ReqOther>>

\* lines 40-49, CacheService.get lines 188-197: no entry, or an expired one
\* that get deletes; getAccountPortfolios is called and awaited
ReqCacheMiss(r) ==
    /\ ~Running
    /\ reqPc[r] = "start"
    /\ cache' = <<>>
    /\ reqPc' = [reqPc EXCEPT ![r] = "awaitPortfolios"]
    /\ UNCHANGED <<reqFetched, heap, reqRet, ReqOther>>

\* line 49 resolves; detectChanges is called and awaited (line 52)
ReqResolvePortfolios(r) ==
    /\ ~Running
    /\ reqPc[r] = "awaitPortfolios"
    /\ \E ps \in SvcAccountLists : reqFetched' = [reqFetched EXCEPT ![r] = <<ps>>]
    /\ reqPc' = [reqPc EXCEPT ![r] = "awaitChanges"]
    /\ UNCHANGED <<heap, cache, reqRet, ReqOther>>

\* line 49 or line 52 rejects: lines 66-69 rethrow
ReqReject(r) ==
    /\ ~Running
    /\ reqPc[r] \in {"awaitPortfolios", "awaitChanges"}
    /\ reqPc' = [reqPc EXCEPT ![r] = "failed"]
    /\ UNCHANGED <<reqFetched, heap, cache, reqRet, ReqOther>>

\* ReqResolveChanges writing the cache before the change data is attached
ReqResolveChangesCacheFirst(r) ==
    /\ ~Running
    /\ reqPc[r] = "awaitChanges"
    /\ \E cs \in SvcChanges : reqFetched' = [reqFetched EXCEPT ![r] = Append(@, cs)]
    /\ heap' = [heap EXCEPT ![r] = <<groupAccountsByCurrency(reqFetched[r][1], <<>>)>>]
    /\ cache' = <<r>>
    /\ reqPc' = [reqPc EXCEPT ![r] = "cached"]
    /\ UNCHANGED <<reqRet, ReqOther>>

\* line 52 resolves; lines 55-61: the combined accounts are built and the
\* array is put into the cache
ReqResolveChanges(r) ==
    /\ ~Running
    /\ reqPc[r] = "awaitChanges"
    /\ \E cs \in SvcChanges : reqFetched' = [reqFetched EXCEPT ![r] = Append(@, cs)]
    /\ heap' = [heap EXCEPT ![r] = <<CombineFetched(reqFetched[r][1], reqFetched'[r][2])>>]
    /\ cache' = <<r>>
    /\ reqPc' = [reqPc EXCEPT ![r] = "cached"]
    /\ UNCHANGED <<reqRet, ReqOther>>

\* line 64: the array is sorted in place and returned
ReqSortAndReturn(r) ==
    /\ reqPc[r] = "cached"
    /\ heap' = [heap EXCEPT ![r] = <<SortByBaseAccountName(heap[r][1])>>]
    /\ reqRet' = [reqRet EXCEPT ![r] = <<r>>]
    /\ reqPc' = [reqPc EXCEPT ![r] = "done"]
    /\ UNCHANGED <<reqFetched, cache, ReqOther>>

\* CacheService.clearAll, called by the clear-cache endpoint
ClearAll ==
    /\ ~Running
    /\ cache # <<>>
    /\ cache' = <<>>
    /\ UNCHANGED <<reqPc, reqFetched, heap, reqRet, ReqOther>>

ReqNext ==
    \/ \E r \in Requests :
           \/ ReqCacheHit(r)
           \/ ReqCacheMiss(r)
           \/ ReqResolvePortfolios(r)
           \/ ReqReject(r)
           \/ ReqResolveChanges(r)
           \/ ReqSortAndReturn(r)
    \/ ClearAll

SpecReq == ReqInit /\ [][ReqNext]_vars

(* Properties of the cache under concurrent requests *)

\* the array request w created is the complete result of what w fetched, in
\* the order of the grouping or sorted
CompleteResultOf(w) ==
    /\ heap[w] # <<>>
    /\ Len(reqFetched[w]) = 2
    /\ heap[w][1] \in { CombineFetched(reqFetched[w][1], reqFetched[w][2]),
                        SortByBaseAccountName(
                            CombineFetched(reqFetched[w][1], reqFetched[w][2])) }

\* C18: whatever the interleaving of two requests that miss the cache, the work
\* is only done twice: a request that returns returns a complete, sorted
\* result, and the cache entry is absent or the complete result of a request
C18_DuplicatedWorkOnly ==
    /\ cache # <<>> => CompleteResultOf(cache[1])
    /\ \A r \in Requests :
           reqPc[r] = "done" =>
               /\ reqRet[r] # <<>>
               /\ CompleteResultOf(reqRet[r][1])
               /\ heap[reqRet[r][1]][1] = SortByBaseAccountName(heap[reqRet[r][1]][1])

\* both requests missed the cache, computed, and returned their own array; the
\* second write replaced the first
C18_Witness ==
    /\ reqPc = [r \in Requests |-> "done"]
    /\ reqRet = [r \in Requests |-> <<r>>]
    /\ cache = <<2>>
    /\ heap[1] # heap[2]

\* C19: as long as the cache entry is not cleared, expired or overwritten, the
\* data it holds stays as it was stored
C19_CacheEntryImmutable ==
    [][(cache # <<>> /\ cache' = cache) => heap'[cache[1]] = heap[cache[1]]]_vars

----------------------------------------------------------------------------
(* ModelWatchListService.getModelWatchList.  A WatchListModel keeps the     *)
(* fields the ranking reads: name, symbol, return12Month, finalEquity and   *)
(* isOwned (the other numbers are copied the same way).                     *)

TopCount == 5

\* lines 174-194: the rows with performance data, as WatchListModels
ToWatchListModels(allModels, ourHoldings) ==
    LET withData == SelectSeq(allModels, LAMBDA m : m.performance # <<>>)
    IN  [i \in 1..Len(withData) |->
            [ name |-> withData[i].name,
              symbol |-> withData[i].symbol,
              return12Month |-> withData[i].performance[1].return12Month,
              finalEquity |-> withData[i].performance[1].finalEquity,
              isOwned |-> \E k \in 1..Len(ourHoldings) :
                              ownedModelsMatch(withData[i].name, ourHoldings[k]) ]]

\* one round of removeDuplicateModels; uniqueMap is the list of the values of
\* the Map in key order, and a replaced value keeps the place of its key
PutUnique(uniqueMap, model) ==
    IF \E i \in 1..Len(uniqueMap) : toLowerCase(uniqueMap[i].name) = toLowerCase(model.name)
    THEN [i \in 1..Len(uniqueMap) |->
             IF /\ toLowerCase(uniqueMap[i].name) = toLowerCase(model.name)
                /\ \/ model.return12Month > uniqueMap[i].return12Month
                   \/ /\ model.return12Month = uniqueMap[i].return12Month
                      /\ model.finalEquity > uniqueMap[i].finalEquity
             THEN model ELSE uniqueMap[i]]
    ELSE Append(uniqueMap, model)

RECURSIVE removeDuplicateModels(_, _)
removeDuplicateModels(models, uniqueMap) ==
    IF models = <<>> THEN uniqueMap
    ELSE removeDuplicateModels(Tail(models), PutUnique(uniqueMap, Head(models)))

convertToWatchListModels(allModels, ourHoldings) ==
    removeDuplicateModels(ToWatchListModels(allModels, ourHoldings), <<>>)

\* models.sort((a, b) => b.return12Month - a.return12Month): stable, highest first
RECURSIVE SortByReturn12Month(_)
SortByReturn12Month(ms) ==
    IF ms = <<>> THEN <<>>
    ELSE LET sorted == SortByReturn12Month(SubSeq(ms, 1, Len(ms) - 1))
             x == ms[Len(ms)]
             k == Cardinality({i \in 1..Len(sorted) :
                                  sorted[i].return12Month >= x.return12Month})
         IN  SubSeq(sorted, 1, k) \o <<x>> \o SubSeq(sorted, k + 1, Len(sorted))

\* array.slice(0, n)
SliceTo(seq, n) == SubSeq(seq, 1, IF Len(seq) < n THEN Len(seq) ELSE n)

\* lines 66-71: the models with a 12-month return other than 0, ranked, the
\* first five
RankModels(watchListModels) ==
    SliceTo(SortByReturn12Month(
                SelectSeq(watchListModels, LAMBDA m : m.return12Month # 0)),
            TopCount)

\* lines 81-87
WatchListOf(watchListModels, date) ==
    [ topPerformers |-> RankModels(watchListModels),
      totalModelsAnalyzed |-> Len(watchListModels),
      ownedModelsCount |-> Len(SelectSeq(watchListModels, LAMBDA m : m.isOwned)),
      opportunityModelsCount |-> Len(SelectSeq(watchListModels, LAMBDA m : ~m.isOwned)),
      date |-> date ]

\* the names of the rows of the day's emails: six models and a second row of
\* the first one in upper case
WlNames ==
    << <<"g">>, <<"1">>, <<".">>, <<"g", "g">>, <<"1", "1">>, <<"1", ".", "g">>, <<"G">> >>

\* the rows for a choice of 12-month returns (<<>>: no row of the name); the
\* rows of the third name come without performance data
WlRowsOf(returns) ==
    LET present == SelectSeq([i \in 1..Len(WlNames) |-> i], LAMBDA i : returns[i] # <<>>)
    IN  [k \in 1..Len(present) |->
            [ name |-> WlNames[present[k]],
              symbol |-> "s",
              value |-> 1,
              dayChangePercent |-> 0,
              performance |-> IF present[k] = 3 THEN <<>>
                              ELSE <<PerfChoice(present[k], returns[present[k]][1])>> ]]

WlModelLists == { WlRowsOf(returns) : returns \in [1..Len(WlNames) -> {<<>>, <<0 - 4>>, <<0>>, <<5>>}] }

\* the model names getOurCurrentHoldings finds in the combined accounts
WlHoldingLists == { <<>>, <<NameG>> }

WlInit ==
    /\ tzWest = FALSE
    /\ CalIdle
    /\ CmpIdle
    /\ DetIdle
    /\ LibIdle
    /\ ReqIdle
    /\ SvcIdle
    /\ wlPc = "start"
    /\ wlModels = <<>>
    /\ wlHoldings = <<>>
    /\ wlCache = <<>>
    /\ wlRet = <<>>

WlOther == <<calVars, cmpVars, detVars, libVars, reqVars, svcVars>>

\* lines 46-50: the entry of the date is in the cache
WlCacheHit ==
    /\ wlPc = "start"
    /\ wlCache # <<>>
    /\ wlRet' = wlCache
    /\ wlPc' = "done"
    /\ UNCHANGED <<wlModels, wlHoldings, wlCache, WlOther>>

\* lines 46-55: no entry, or an expired one that get deletes
WlCacheMiss ==
    /\ wlPc = "start"
    /\ wlCache' = <<>>
    /\ wlPc' = "awaitModels"
    /\ UNCHANGED <<wlModels, wlHoldings, wlRet, WlOther>>

\* line 55 resolves; getOurCurrentHoldings is called (line 59)
WlResolveModels ==
    /\ wlPc = "awaitModels"
    /\ \E ms \in WlModelLists : wlModels' = <<ms>>
    /\ wlPc' = "awaitHoldings"
    /\ UNCHANGED <<wlHoldings, wlCache, wlRet, WlOther>>

\* line 55 rejects (getPortfolioEmails threw): lines 94-97 rethrow
WlRejectModels ==
    /\ wlPc = "awaitModels"
    /\ wlPc' = "failed"
    /\ UNCHANGED <<wlModels, wlHoldings, wlCache, wlRet, WlOther>>

\* lines 62-92 once ourHoldings is there: the watch list is built, cached and
\* returned
WlFinish(ourHoldings) ==
    /\ wlCache' = <<WatchListOf(convertToWatchListModels(wlModels[1], ourHoldings), AsmDate)>>
    /\ wlRet' = wlCache'
    /\ wlPc' = "done"
    /\ UNCHANGED <<wlModels, WlOther>>

\* getCombinedAccountPortfolios resolves inside getOurCurrentHoldings (lines 147-160)
WlResolveHoldings ==
    /\ wlPc = "awaitHoldings"
    /\ \E names \in WlHoldingLists :
           /\ wlHoldings' = <<[failed |-> FALSE, names |-> names]>>
           /\ WlFinish(names)

\* getCombinedAccountPortfolios rejects inside getOurCurrentHoldings: lines
\* 162-165 catch the error and return []
WlRejectHoldings ==
    /\ wlPc = "awaitHoldings"
    /\ wlHoldings' = <<[failed |-> TRUE, names |-> <<>>]>>
    /\ WlFinish(<<>>)

\* the next request for the watch list of the date
WlNextCall ==
    /\ wlPc \in {"done", "failed"}
    /\ wlPc' = "start"
    /\ wlModels' = <<>>
    /\ wlHoldings' = <<>>
    /\ wlRet' = <<>>
    /\ UNCHANGED <<wlCache, WlOther>>

WlNext ==
    \/ WlCacheHit
    \/ WlCacheMiss
    \/ WlResolveModels
    \/ WlRejectModels
    \/ WlResolveHoldings
    \/ WlRejectHoldings
    \/ WlNextCall

SpecWl == WlInit /\ [][WlNext]_vars

(* Properties of getModelWatchList *)

\* C17: once a fetch has failed during the call (here the one behind
\* getOurCurrentHoldings), the call fails: no watch list is returned and none
\* is written to the cache
C17_NoPartialWatchList ==
    (wlHoldings # <<>> /\ wlHoldings[1].failed) => (wlRet = <<>> /\ wlCache = <<>>)

WlComputed == wlPc = "done" /\ wlHoldings # <<>>

\* the rows with performance data that no row of the same name (ignoring
\* case) beats: the de-duplicated models of the day's emails
DeduplicatedRows ==
    { m \in Range(wlModels[1]) :
        /\ m.performance # <<>>
        /\ \A o \in Range(wlModels[1]) :
               (o.performance # <<>> /\ toLowerCase(o.name) = toLowerCase(m.name)) =>
                   \/ o.performance[1].return12Month < m.performance[1].return12Month
                   \/ /\ o.performance[1].return12Month = m.performance[1].return12Month
                      /\ o.performance[1].finalEquity <= m.performance[1].finalEquity }

TopNames == { wlRet[1].topPerformers[i].name : i \in 1..Len(wlRet[1].topPerformers) }

\* C20: topPerformers are at most 5 of the de-duplicated models with
\* performance data, in descending order of 12-month return, and no model left
\* out has a higher 12-month return than a model that is in
C20_TopByReturn12Month ==
    WlComputed =>
        LET top == wlRet[1].topPerformers
        IN  /\ Len(top) <= TopCount
            /\ \A i \in 1..Len(top) :
                   \E m \in DeduplicatedRows :
                       m.name = top[i].name
                       /\ m.performance[1].return12Month = top[i].return12Month
            /\ \A i, j \in 1..Len(top) : i < j => top[i].return12Month >= top[j].return12Month
            /\ \A m \in DeduplicatedRows :
                   m.name \notin TopNames =>
                       \A i \in 1..Len(top) :
                           m.performance[1].return12Month <= top[i].return12Month
----------------------------------------------------------------------------
(* CacheService: get, set, has, clear, clearAll and the keyed methods, with *)
(* the clock Date.now() advancing between the calls.  Time is counted in    *)
(* units of 30 minutes.                                                     *)

\* the clock does not pass this value
MaxClock == 3

\* 30 * 60 * 1000 ms and 60 * 60 * 1000 ms
DEFAULT_TTL == 1
EMAIL_TTL == 2

CacheData == {"a", "b"}

CacheGetNoExpiry(map, key, now) ==
    IF map[key] = <<>> THEN [result |-> <<>>, map |-> map]
    ELSE [result |-> <<map[key][1].data>>, map |-> map]

\* get: [result, map], the result <<>> for null; an expired entry is deleted
CacheGet(map, key, now) ==
    IF map[key] = <<>> THEN [result |-> <<>>, map |-> map]
    ELSE IF now > map[key][1].expiresAt
    THEN [result |-> <<>>, map |-> [map EXCEPT ![key] = <<>>]]
    ELSE [result |-> <<map[key][1].data>>, map |-> map]

\* set: ttl is <<>> when the argument is left out
CacheSet(map, key, data, ttl, now) ==
    LET cacheTTL == IF ttl = <<>> \/ ttl[1] = 0 THEN DEFAULT_TTL ELSE ttl[1]
    IN  [map EXCEPT ![key] = << [ data |-> data,
                                  timestamp |-> now,
                                  expiresAt |-> now + cacheTTL ] >>]

CacheHas(map, key, now) == map[key] # <<>> /\ now <= map[key][1].expiresAt

CacheOther == <<calVars, cmpVars, detVars, reqVars, wlVars, imapVars, loopVars>>

CacheInit ==
    /\ tzWest = FALSE
    /\ CalIdle
    /\ CmpIdle
    /\ DetIdle
    /\ ReqIdle
    /\ WlIdle
    /\ ImapIdle
    /\ LoopIdle
    /\ fnOp = "none"
    /\ fnArgs = <<>>
    /\ fnRes = <<>>
    /\ clock = 0
    /\ store = EmptyMap
    /\ setLog = EmptyMap

NoCall == fnOp' = "none" /\ fnArgs' = <<>> /\ fnRes' = <<>>

\* time passes
Tick ==
    /\ clock < MaxClock
    /\ clock' = clock + 1
    /\ NoCall
    /\ UNCHANGED <<store, setLog, CacheOther>>

\* what a get of the key does at the present time
GetKey(key) ==
    /\ fnOp' = "get"
    /\ fnArgs' = <<key>>
    /\ fnRes' = CacheGet(store, key, clock).result
    /\ store' = CacheGet(store, key, clock).map
    /\ UNCHANGED <<clock, setLog, CacheOther>>

\* what a set of the key does at the present time; kind names the TTL asked for
SetKey(key, data, ttl, kind) ==
    /\ NoCall
    /\ store' = CacheSet(store, key, data, ttl, clock)
    /\ setLog' = [setLog EXCEPT ![key] = <<[data |-> data, at |-> clock, kind |-> kind]>>]
    /\ UNCHANGED <<clock, CacheOther>>

CallGet == \E key \in CacheKeys : GetKey(key)

CallSet == \E key \in CacheKeys, data \in CacheData : SetKey(key, data, <<>>, "default")

CallHas ==
    \E key \in CacheKeys :
        /\ fnOp' = "has"
        /\ fnArgs' = <<key>>
        /\ fnRes' = <<CacheHas(store, key, clock)>>
        /\ UNCHANGED <<clock, store, setLog, CacheOther>>

CallClear ==
    \E key \in CacheKeys :
        /\ NoCall
        /\ store' = [store EXCEPT ![key] = <<>>]
        /\ setLog' = [setLog EXCEPT ![key] = <<>>]
        /\ UNCHANGED <<clock, CacheOther>>

CallClearAll ==
    /\ NoCall
    /\ store' = EmptyMap
    /\ setLog' = EmptyMap
    /\ UNCHANGED <<clock, CacheOther>>

CallGetCombinedAccounts == \E date \in CacheDates : GetKey(CombinedAccountsKey(date))

CallSetCombinedAccounts ==
    \E date \in CacheDates, data \in CacheData :
        SetKey(CombinedAccountsKey(date), data, <<EMAIL_TTL>>, "email")

CallGetModelWatchList == \E date \in WatchListDates : GetKey(ModelWatchListKey(date))

CallSetModelWatchList ==
    \E date \in WatchListDates, data \in CacheData :
        SetKey(ModelWatchListKey(date), data, <<EMAIL_TTL>>, "email")

CacheNext ==
    \/ Tick
    \/ CallGet
    \/ CallSet
    \/ CallHas
    \/ CallClear
    \/ CallClearAll
    \/ CallGetCombinedAccounts
    \/ CallSetCombinedAccounts
    \/ CallGetModelWatchList
    \/ CallSetModelWatchList

SpecCache == CacheInit /\ [][CacheNext]_vars

(* Properties of the cache *)

\* the time to live of an entry, in units of 30 minutes: 60 minutes for the
\* entries of the keyed methods, 30 minutes when set is given no TTL
StatedTTL(kind) == IF kind = "email" THEN 2 ELSE 1

\* the key was set, was not cleared since, and the set is at most its TTL ago
Live(key) ==
    /\ setLog[key] # <<>>
    /\ clock <= setLog[key][1].at + StatedTTL(setLog[key][1].kind)

\* C24: get(key) returns the value last stored under the key, and has(key) is
\* true, at every time up to the TTL after the set (30 minutes when no TTL is
\* given, 60 minutes for the combined-accounts and watch-list entries); later,
\* and after clear(key) or clearAll, get returns null and has is false until
\* the key is set again; an entry of one key never answers for another key.
C24_LiveUntilTTL ==
    /\ fnOp = "get" =>
          fnRes = IF Live(fnArgs[1]) THEN <<setLog[fnArgs[1]][1].data>> ELSE <<>>
    /\ fnOp = "has" => fnRes = <<Live(fnArgs[1])>>

\* a combined-accounts entry is returned 60 minutes after it was set, while
\* the entry of the other date holds other data
C24_Witness ==
    /\ fnOp = "get"
    /\ fnArgs = <<CombinedAccountsKey(<<2024, 1, 12>>)>>
    /\ fnRes = <<"a">>
    /\ clock = setLog[fnArgs[1]][1].at + 2
    /\ Live(CombinedAccountsKey(<<2024, 1, 11>>))
    /\ setLog[CombinedAccountsKey(<<2024, 1, 11>>)][1].data = "b"

----------------------------------------------------------------------------
(* The stepping loop of getPreviousTradingDay and getNextTradingDay, one    *)
(* iteration at a time                                                      *)

\* the loop is followed for at most this many iterations
MaxLoopSteps == 8

\* the longest run of closed days of the calendar: Thursday 2024-11-28 and
\* Friday 2024-11-29 with the weekend after them
LongestClosedRun == 4

LoopOther == <<cmpVars, detVars, fnOp, fnArgs, reqVars, wlVars, cacheVars, imapVars>>

LoopInit ==
    /\ tzWest \in BOOLEAN
    /\ calDate \in CalDates
    /\ calOp = "none"
    /\ calRes = Null
    /\ loopCur = <<>>
    /\ loopSteps = 0
    /\ CmpIdle
    /\ DetIdle
    /\ LibIdle
    /\ ReqIdle
    /\ WlIdle
    /\ CacheIdle
    /\ ImapIdle

\* let currentDate = new Date(dateStr)
EnterGetPreviousTradingDay ==
    /\ calOp = "none"
    /\ calOp' = "getPreviousTradingDay"
    /\ loopCur' = <<ParseDate(calDate)>>
    /\ UNCHANGED <<tzWest, calDate, calRes, fnRes, loopSteps, LoopOther>>

EnterGetNextTradingDay ==
    /\ calOp = "none"
    /\ calOp' = "getNextTradingDay"
    /\ loopCur' = <<ParseDate(calDate)>>
    /\ UNCHANGED <<tzWest, calDate, calRes, fnRes, loopSteps, LoopOther>>

LoopDelta == IF calOp = "getPreviousTradingDay" THEN -1 ELSE 1

\* the function returned a date string, kept in fnRes
LoopReturned == fnRes # <<>>

InLoop == calOp # "none" /\ ~LoopReturned /\ loopSteps < MaxLoopSteps

\* one iteration that finds a trading day and returns it
LoopReturn ==
    /\ InLoop
    /\ isTradingDay(ToISODate(SetDateDelta(loopCur[1], LoopDelta)), tzWest)
    /\ loopCur' = <<SetDateDelta(loopCur[1], LoopDelta)>>
    /\ loopSteps' = loopSteps + 1
    /\ fnRes' = <<ToISODate(SetDateDelta(loopCur[1], LoopDelta))>>
    /\ UNCHANGED <<tzWest, calDate, calOp, calRes, LoopOther>>

\* one iteration that does not, and goes round again
LoopContinue ==
    /\ InLoop
    /\ ~isTradingDay(ToISODate(SetDateDelta(loopCur[1], LoopDelta)), tzWest)
    /\ loopCur' = <<SetDateDelta(loopCur[1], LoopDelta)>>
    /\ loopSteps' = loopSteps + 1
    /\ UNCHANGED <<tzWest, calDate, calOp, calRes, fnRes, LoopOther>>

LoopNext ==
    \/ EnterGetPreviousTradingDay
    \/ EnterGetNextTradingDay
    \/ LoopReturn
    \/ LoopContinue

SpecLoop == LoopInit /\ [][LoopNext]_vars

\* C25: for every input date the loop of getPreviousTradingDay and of
\* getNextTradingDay ends: it has returned a trading day by the time it has
\* gone round the longest run of closed days plus one times, and it never
\* goes round more often.
C25_LoopTerminates ==
    /\ loopSteps <= LongestClosedRun + 1
    /\ (calOp # "none" /\ ~LoopReturned) => loopSteps <= LongestClosedRun
    /\ LoopReturned => isTradingDay(fnRes[1], tzWest)

\* getPreviousTradingDay("2024-12-02") steps over the weekend and the two
\* holidays before it
C25_Witness ==
    /\ LoopReturned
    /\ calOp = "getPreviousTradingDay"
    /\ calDate = <<2024, 12, 2>>
    /\ fnRes = << <<2024, 11, 27>> >>
    /\ loopSteps = LongestClosedRun + 1

----------------------------------------------------------------------------
(* GmailIMAPService.getPortfolioEmails: the events of the connection, of    *)
(* the fetch and of the message parsers, in every order the library and the *)
(* event loop allow.  A message is named by its sequence number.            *)

\* the search finds at most this many messages
MaxMessages == 3

ImapOther == <<calVars, cmpVars, detVars, libVars, reqVars, wlVars, cacheVars, loopVars>>

\* the messages of the search: whether isPortfolioEmail accepts the message,
\* and how far it is: "wait", "parsing" (simpleParser runs), "parsed", "failed"
MessageLists ==
    UNION { [1..n -> [portfolio : BOOLEAN, st : {"wait"}]] : n \in 0..MaxMessages }

ImapInit ==
    /\ tzWest = FALSE
    /\ CalIdle
    /\ CmpIdle
    /\ DetIdle
    /\ LibIdle
    /\ ReqIdle
    /\ WlIdle
    /\ CacheIdle
    /\ LoopIdle
    /\ imapPc = "connecting"
    /\ msgs \in MessageLists
    /\ emails = <<>>
    /\ imapRet = [state |-> "pending", value |-> <<>>]

\* resolve and reject settle the promise once; later calls have no effect
Settle(state, value) ==
    IF imapRet.state = "pending" THEN [state |-> state, value |-> value] ELSE imapRet

\* lines 44-48: the search finds nothing: imap.end(), resolve([])
ImapSearchEmpty ==
    /\ imapPc = "connecting"
    /\ msgs = <<>>
    /\ imapPc' = "ending"
    /\ imapRet' = Settle("fulfilled", <<>>)
    /\ UNCHANGED <<msgs, emails, ImapOther>>

\* lines 50-55: the search finds messages and they are fetched
ImapSearchFound ==
    /\ imapPc = "connecting"
    /\ msgs # <<>>
    /\ imapPc' = "fetching"
    /\ UNCHANGED <<msgs, emails, imapRet, ImapOther>>

\* lines 28-31, 38-41, 91-94, 101-104: openBox, search, fetch or the
\* connection report an error
ImapError ==
    /\ imapPc \in {"connecting", "fetching"}
    /\ imapPc' = "failed"
    /\ imapRet' = Settle("rejected", <<>>)
    /\ UNCHANGED <<msgs, emails, ImapOther>>

\* lines 57-67: the body of a message has arrived, simpleParser is started
MessageBodyEnd(i) ==
    /\ imapPc = "fetching"
    /\ msgs[i].st = "wait"
    /\ msgs' = [msgs EXCEPT ![i].st = "parsing"]
    /\ UNCHANGED <<imapPc, emails, imapRet, ImapOther>>

\* lines 68-82: simpleParser is done; a portfolio email is pushed
MessageParsed(i) ==
    /\ msgs[i].st = "parsing"
    /\ msgs' = [msgs EXCEPT ![i].st = "parsed"]
    /\ emails' = IF msgs[i].portfolio THEN Append(emails, i) ELSE emails
    /\ UNCHANGED <<imapPc, imapRet, ImapOther>>

\* lines 83-85: simpleParser failed; the error is logged
MessageParseFailed(i) ==
    /\ msgs[i].st = "parsing"
    /\ msgs' = [msgs EXCEPT ![i].st = "failed"]
    /\ UNCHANGED <<imapPc, emails, imapRet, ImapOther>>

\* lines 96-99: every message was fetched: imap.end()
FetchEnd ==
    /\ imapPc = "fetching"
    /\ \A i \in 1..Len(msgs) : msgs[i].st # "wait"
    /\ imapPc' = "ending"
    /\ UNCHANGED <<msgs, emails, imapRet, ImapOther>>

\* lines 106-109: the connection has ended: resolve(emails)
ConnectionEnd ==
    /\ imapPc = "ending"
    /\ imapPc' = "ended"
    /\ imapRet' = Settle("fulfilled", emails)
    /\ UNCHANGED <<msgs, emails, ImapOther>>

ImapNext ==
    \/ ImapSearchEmpty
    \/ ImapSearchFound
    \/ ImapError
    \/ \E i \in 1..Len(msgs) : MessageBodyEnd(i)
    \/ \E i \in 1..Len(msgs) : MessageParsed(i)
    \/ \E i \in 1..Len(msgs) : MessageParseFailed(i)
    \/ FetchEnd
    \/ ConnectionEnd

SpecImap == ImapInit /\ [][ImapNext]_vars

\* C26: when the promise of getPortfolioEmails is fulfilled with the email
\* list, no fetched message is still being parsed, and the list holds every
\* fetched message that is a portfolio email and was parsed.
C26_ListCompleteWhenSettled ==
    imapRet.state = "fulfilled" =>
        \A i \in 1..Len(msgs) :
            /\ msgs[i].st # "parsing"
            /\ (msgs[i].portfolio /\ msgs[i].st = "parsed") => i \in Range(imapRet.value)

====
